---- MODULE Spec2Model ----
(***************************************************************************)
(* A model of streaming-libdeflate-rs: the chunked input window, the       *)
(* chunked output window with its rolling CRC-32, the word-wise bit        *)
(* reader, the canonical Huffman decode-table builder, the DEFLATE block   *)
(* header decoder, the gzip frame handler and the driver that loops over   *)
(* concatenated members.                                                   *)
(*                                                                         *)
(* Conventions.                                                            *)
(*  - A byte is a number in 0..255; a machine word or a CRC register is a  *)
(*    sequence of bits, least significant bit first (TLC's integers are    *)
(*    32 bits wide, a usize is not).                                       *)
(*  - Buffers are allocated uninitialised.  A buffer is kept as the        *)
(*    sequence of the cells written so far (input) or as a function on     *)
(*    the written indices (output); a read of any other cell yields the    *)
(*    byte e.g of the step's environment e, chosen anew at every step.     *)
(*  - A sequence built by a function constructor is closed with \o <<>>,   *)
(*    which makes TLC evaluate it once instead of at every use.            *)
(*  - usize arithmetic that underflows panics in a debug build and wraps   *)
(*    in a release build.  Each step is taken with e.wrap in BOOLEAN; once *)
(*    a run has wrapped it is a release run (field "wrapped") and only     *)
(*    e.wrap = TRUE remains.  A panic, and an access outside an            *)
(*    allocation, end the run with result "Abort" ("trap" names the site). *)
(***************************************************************************)
EXTENDS Integers, Sequences, FiniteSets, TLC

Min(a, b) == IF a <= b THEN a ELSE b
Max(a, b) == IF a >= b THEN a ELSE b

(***************************************************************************)
(* Bits and bytes                                                          *)
(***************************************************************************)
Byte == 0..255

\* bit i (0 = least significant) of the number n
BitOf(n, i) == (n \div (2^i)) % 2

\* the low w bits of n, least significant first
NumBits(n, w) == [i \in 1..w |-> BitOf(n, i - 1)] \o <<>>

RECURSIVE BitsNum(_)
\* the number whose bits, least significant first, are bs (fewer than 31 bits)
BitsNum(bs) == IF bs = <<>> THEN 0 ELSE bs[1] + 2 * BitsNum(Tail(bs))

\* bitwise and of two bytes
ByteAnd(a, b) == BitsNum([i \in 1..8 |-> BitOf(a, i - 1) * BitOf(b, i - 1)])

\* u16::from_le_bytes
LeU16(bytes) == bytes[1] + 256 * bytes[2]

\* the four little-endian bytes of n, 0 <= n < 2^31
Le4(n) == <<n % 256, (n \div 256) % 256, (n \div 65536) % 256, (n \div 16777216) % 256>>

\* the two's complement of a u16, for the one's complement
NegU16(x) == (65536 - x) % 65536

\* !x for a u16
NotU16(x) == 65535 - x

(***************************************************************************)
(* Constants of the program                                                *)
(***************************************************************************)
\* DeflateInput::MAX_LOOK_BACK = size_of::<usize>() * 2
IN_MAX_LOOK_BACK == 16
\* DeflateInput::MAX_OVERREAD = size_of::<usize>() * 2
MAX_OVERREAD == 16
\* DeflateOutput::MAX_LOOK_BACK
OUT_MAX_LOOK_BACK == 32768
\* DeflateOutput::OVERWRITE_MAX
OVERWRITE_MAX == 16
\* BitStream::BITBUF_MAXBITS
BITBUF_MAXBITS == 56
\* size_of::<usize>() * 8
WORDBITS == 64
\* CHUNK_SIZE of read_exact_into
CHUNK_SIZE == 256

GZIP_ID1 == 31
GZIP_ID2 == 139
GZIP_CM_DEFLATE == 8
GZIP_FHCRC == 2
GZIP_FEXTRA == 4
GZIP_FNAME == 8
GZIP_FCOMMENT == 16
GZIP_FRESERVED == 224
GZIP_FOOTER_SIZE == 8

DEFLATE_BLOCKTYPE_UNCOMPRESSED == 0
DEFLATE_BLOCKTYPE_STATIC_HUFFMAN == 1
DEFLATE_BLOCKTYPE_DYNAMIC_HUFFMAN == 2
DEFLATE_MAX_MATCH_LEN == 258

\* the model's stand-in for 2^64: every true quantity of a run is far below
\* it, so an underflowed usize x - y is kept as UsizeModulus + x - y
UsizeModulus == 2^30

(***************************************************************************)
(* CRC-32 (crc32fast::Hasher), on a 32-bit register                        *)
(***************************************************************************)
\* the reflected polynomial 0xEDB88320, least significant bit first
CrcPoly == <<0,0,0,0,0,1,0,0, 1,1,0,0,0,0,0,1, 0,0,0,1,1,1,0,1, 1,0,1,1,0,1,1,1>>

Xor(a, b) == [i \in 1..Len(a) |-> (a[i] + b[i]) % 2] \o <<>>

\* x >> 1 on a register
Shr1(r) == [i \in 1..Len(r) |-> IF i < Len(r) THEN r[i + 1] ELSE 0] \o <<>>

CrcShift(r) == IF r[1] = 1 THEN Xor(Shr1(r), CrcPoly) ELSE Shr1(r)

CrcByte(r, b) ==
    LET r0 == [i \in 1..32 |-> IF i <= 8 THEN (r[i] + BitOf(b, i - 1)) % 2 ELSE r[i]] \o <<>>
    IN  CrcShift(CrcShift(CrcShift(CrcShift(CrcShift(CrcShift(CrcShift(CrcShift(r0))))))))

RECURSIVE CrcUpdate(_, _)
\* Hasher::update
CrcUpdate(r, bytes) ==
    IF Len(r) = 0 \/ bytes = <<>> THEN r
    ELSE IF Len(bytes) = 1 THEN CrcByte(r, bytes[1])
    ELSE CrcUpdate(CrcUpdate(r, SubSeq(bytes, 1, Len(bytes) \div 2)),
                   SubSeq(bytes, (Len(bytes) \div 2) + 1, Len(bytes)))

\* Hasher::new: the register holds the complement of the running checksum
CrcNew == [i \in 1..32 |-> 1] \o <<>>

\* Hasher::finalize, as the four little-endian bytes of the u32
CrcFinalize(r) ==
    [k \in 1..4 |-> BitsNum([i \in 1..8 |-> 1 - r[8 * (k - 1) + i]] \o <<>>)] \o <<>>

\* crc32 of a byte string
Crc32(bytes) == CrcFinalize(CrcUpdate(CrcNew, bytes))

(***************************************************************************)
(* The step environment: the byte an uninitialised cell yields, whether an *)
(* underflowing subtraction wraps, and whether the sink accepts a chunk    *)
(***************************************************************************)
GarbageBytes == {0, 255}

Environments == [g : GarbageBytes, wrap : BOOLEAN, sink_ok : BOOLEAN]

(***************************************************************************)
(* DeflateChunkedBufferInput                                               *)
(*   buffer         the cells written so far, buffer[i + 1] is cell i      *)
(*   func           the source closure: the file, the offset of its next   *)
(*                  byte and the most bytes one call returns               *)
(*   trap, wrapped  the site of a panic or wild access; whether an         *)
(*                  underflow has wrapped                                  *)
(***************************************************************************)
\* cells from .. from + n - 1 of a buffer
BufSlice(buf, from, n, e) ==
    [i \in 1..n |-> IF from + i <= Len(buf) THEN buf[from + i] ELSE e.g] \o <<>>

\* the buffer after bytes are written to cells at .. at + Len(bytes) - 1
BufPut(buf, at, bytes, e) ==
    [i \in 1..Max(Len(buf), at + Len(bytes)) |->
        IF i > at /\ i <= at + Len(bytes) THEN bytes[i - at]
        ELSE IF i <= Len(buf) THEN buf[i] ELSE e.g] \o <<>>

NewInput(file, max_read, buf_size) ==
    [buffer |-> <<>>, buf_size |-> buf_size, global_position_offset |-> 0,
     position |-> 0, end_position |-> 0, overread_position_limit |-> 0,
     func |-> [file |-> file, offset |-> 0, max_read |-> max_read],
     trap |-> "none", wrapped |-> FALSE]

\* the length of the allocation
InAlloc(I) == I.buf_size + MAX_OVERREAD

Trap(I, site) == [I EXCEPT !.trap = site]

\* the number of bytes the source returns when offered room for req bytes
SrcCount(f, req) == Min(Min(req, f.max_read), Len(f.file) - f.offset)

RefillBuffer(I, e) ==
    IF I.trap # "none" THEN I ELSE
    LET keep_buf_len == Min(I.position, IN_MAX_LOOK_BACK)
        move_offset == I.position - keep_buf_len
    IN  IF I.end_position < move_offset
        THEN Trap(I, "refill_buffer:move_amount")
        ELSE
        LET move_amount == I.end_position - move_offset
            moved == BufPut(I.buffer, 0, BufSlice(I.buffer, move_offset, move_amount, e), e)
            position == I.position - move_offset
            end0 == I.end_position - move_offset
            count == SrcCount(I.func, I.buf_size - end0)
            filled == BufPut(moved, end0,
                             SubSeq(I.func.file, I.func.offset + 1, I.func.offset + count), e)
            end1 == end0 + count
            limit == IF position <= end1
                     THEN Max(end1 - position, MAX_OVERREAD) + position - MAX_OVERREAD
                     ELSE IF end1 >= MAX_OVERREAD THEN end1 - MAX_OVERREAD
                     ELSE UsizeModulus + end1 - MAX_OVERREAD
        IN  IF position > end1 /\ ~e.wrap
            THEN Trap(I, "refill_buffer:overread_position_limit")
            ELSE [I EXCEPT !.buffer = filled,
                           !.global_position_offset = @ + move_offset,
                           !.position = position,
                           !.end_position = end1,
                           !.overread_position_limit = limit,
                           !.func.offset = @ + count,
                           !.wrapped = @ \/ position > end1]

\* the 64 bits of the word at position
GetLeWordNoAdvance(I, e) ==
    LET bytes == BufSlice(I.buffer, I.position, 8, e)
    IN  [j \in 1..WORDBITS |-> BitOf(bytes[((j - 1) \div 8) + 1], (j - 1) % 8)] \o <<>>

MoveStreamPos(I, amount, e) ==
    LET moved(I1) ==
            IF I1.trap # "none" THEN I1
            ELSE IF I1.position + amount < 0 THEN Trap(I1, "move_stream_pos:position")
            ELSE [I1 EXCEPT !.position = @ + amount]
    IN  IF I.trap # "none" THEN I
        ELSE moved(IF amount > 0 /\ I.position + amount > I.end_position
                   THEN RefillBuffer(I, e) ELSE I)

TellStreamPos(I) == I.global_position_offset + I.position

\* read of len bytes into a zeroed array: [in, bytes, avail]
Read(I, len, e) ==
    LET zeros == [i \in 1..len |-> 0] \o <<>>
        \* the copy out of the buffer I1, refilled if need be
        copied(I1) ==
            IF I1.trap # "none" THEN [in |-> I1, bytes |-> zeros, avail |-> 0]
            ELSE
            LET avail_bytes == IF I1.position > I1.end_position THEN len
                               ELSE Min(len, I1.end_position - I1.position)
            IN  IF I1.position > I1.end_position /\ ~e.wrap
                THEN [in |-> Trap(I1, "read:avail_bytes"), bytes |-> zeros, avail |-> 0]
                ELSE IF I1.position + avail_bytes > InAlloc(I1)
                THEN [in |-> Trap(I1, "read:copy"), bytes |-> zeros, avail |-> 0]
                ELSE [in |-> [I1 EXCEPT !.position = @ + avail_bytes,
                                        !.wrapped = @ \/ I1.position > I1.end_position],
                      bytes |-> [i \in 1..len |->
                                    IF i <= avail_bytes
                                    THEN BufSlice(I1.buffer, I1.position, len, e)[i]
                                    ELSE 0] \o <<>>,
                      avail |-> avail_bytes]
    IN  copied(IF I.trap = "none" /\ I.end_position < I.position + len
               THEN RefillBuffer(I, e) ELSE I)

EnsureOverreadLength(I, e) ==
    IF I.trap = "none" /\ I.position > I.overread_position_limit
    THEN RefillBuffer(I, e) ELSE I

HasReadableOverread(I) == I.position <= I.overread_position_limit

\* [in, ok]
HasValidBytesSlow(I, e) ==
    LET valid(I1) == [in |-> I1, ok |-> I1.position < I1.end_position]
    IN  valid(IF I.trap = "none" /\ I.position >= I.end_position
              THEN RefillBuffer(I, e) ELSE I)

\* DeflateInput::read_byte
ReadByte(I, e) ==
    LET byte(r) == [in |-> r.in, val |-> r.bytes[1]] IN byte(Read(I, 1, e))

\* DeflateInput::read_le_u16
ReadLeU16(I, e) ==
    LET u16(r) == [in |-> r.in, val |-> LeU16(r.bytes)] IN u16(Read(I, 2, e))

\* DeflateInput::read_le_u32, as the four bytes of the u32
ReadLeU32(I, e) ==
    LET u32(r) == [in |-> r.in, val |-> r.bytes] IN u32(Read(I, 4, e))

(***************************************************************************)
(* BitStream.  A reader is the pair [bs, in] of the bit buffer and the     *)
(* input stream it borrows.  bitsleft is kept as an integer; a negative    *)
(* value stands for the wrapped usize 2^64 + bitsleft of a release run.    *)
(***************************************************************************)
NewBitStream == [bitbuf |-> [j \in 1..WORDBITS |-> 0] \o <<>>, bitsleft |-> 0, inbits_offset |-> 0]

FillBitsWordwise(P, e) ==
    IF P.in.trap # "none" THEN P
    ELSE IF P.in.position + 8 > InAlloc(P.in)
    THEN [P EXCEPT !.in = Trap(@, "get_le_word_no_advance")]
    ELSE
    LET bytes_to_read == BITBUF_MAXBITS - P.bs.bitsleft
        word == GetLeWordNoAdvance(P.in, e)
        io == P.bs.inbits_offset
        sh == P.bs.bitsleft % WORDBITS
        \* bit j of (word >> inbits_offset).wrapping_shl(bitsleft)
        word_with_offset(j) ==
            IF j >= sh /\ j - sh + io < WORDBITS THEN word[j - sh + io + 1] ELSE 0
        new_offset == io + bytes_to_read
    IN  [bs |-> [bitbuf |-> [j \in 1..WORDBITS |->
                                Max(P.bs.bitbuf[j], word_with_offset(j - 1))] \o <<>>,
                 bitsleft |-> BITBUF_MAXBITS,
                 inbits_offset |-> new_offset % 8],
         in |-> MoveStreamPos(P.in, new_offset \div 8, e)]

\* a reader that takes every request as met
HaveBitsAlways(bs, n) == TRUE

HaveBits(bs, n) == bs.bitsleft < 0 \/ bs.bitsleft >= n

\* ensure_bits::<REFILL>(n)
EnsureBits(P, refill, n, e) ==
    LET ensured(P1) == IF HaveBits(P1.bs, n) THEN P1 ELSE FillBitsWordwise(P1, e)
    IN  ensured(IF refill THEN [P EXCEPT !.in = EnsureOverreadLength(@, e)] ELSE P)

\* bits(n), n <= 30
Bits(bs, n) == BitsNum(SubSeq(bs.bitbuf, 1, n))

\* bits_with_offset(o, n): bits o .. o + n - 1 of the low 32 bits
BitsWithOffset(bs, o, n) == BitsNum(SubSeq(bs.bitbuf, o + 1, Min(o + n, 32)))

RemoveBits(P, n, e) ==
    IF P.in.trap # "none" THEN P
    ELSE IF P.bs.bitsleft >= 0 /\ P.bs.bitsleft < n /\ ~e.wrap
    THEN [P EXCEPT !.in = Trap(@, "remove_bits:bitsleft")]
    ELSE [P EXCEPT !.bs.bitbuf = [j \in 1..WORDBITS |->
                                     IF j + n <= WORDBITS THEN P.bs.bitbuf[j + n] ELSE 0] \o <<>>,
                   !.bs.bitsleft = @ - n,
                   !.in.wrapped = @ \/ (P.bs.bitsleft >= 0 /\ P.bs.bitsleft < n)]

\* pop_bits(n): [p, val]
PopBits(P, n, e) == [p |-> RemoveBits(P, n, e), val |-> Bits(P.bs, n)]

\* isize division, which truncates towards zero
DivTrunc(a, b) == IF a >= 0 THEN a \div b ELSE -((-a) \div b)

AlignInput(P, e) ==
    IF P.in.trap # "none" THEN P ELSE
    LET bitsleft == IF P.bs.inbits_offset > 0
                    THEN P.bs.bitsleft + 8 - P.bs.inbits_offset
                    ELSE P.bs.bitsleft
        delta == (IF P.bs.inbits_offset > 0 THEN 1 ELSE 0) - DivTrunc(bitsleft, 8)
    IN  [bs |-> NewBitStream,
         in |-> EnsureOverreadLength(MoveStreamPos(P.in, delta, e), e)]

\* BitStream::read_u16: [p, val]
ReadU16(P, e) ==
    LET u16(r) == [p |-> [P EXCEPT !.in = r.in], val |-> LeU16(r.bytes)]
    IN  u16(Read(P.in, 2, e))

(***************************************************************************)
(* DeflateChunkedBufferOutput                                              *)
(*   buffer       a function on the indices of the cells written so far    *)
(*   current_ptr  kept as an index into buffer                             *)
(*   crc32        the register of the Hasher                               *)
(*   func         the sink closure: the bytes accepted, the number of      *)
(*                calls refused and whether a call followed a refusal      *)
(***************************************************************************)
NewOutput(buf_size) ==
    [buffer |-> <<>>, buf_size |-> buf_size,
     current_ptr |-> OUT_MAX_LOOK_BACK, crc32 |-> CrcNew, written |-> 0,
     func |-> [data |-> <<>>, refused |-> 0, again |-> FALSE],
     trap |-> "none"]

LastUsablePtr(O) == O.buf_size + OUT_MAX_LOOK_BACK

OutAlloc(O) == O.buf_size + OUT_MAX_LOOK_BACK + OVERWRITE_MAX

OutGet(O, i, e) == IF i \in DOMAIN O.buffer THEN O.buffer[i] ELSE e.g

\* cells from .. to - 1
OutSlice(O, from, to, e) == [i \in 1..(to - from) |-> OutGet(O, from + i - 1, e)] \o <<>>

\* the buffer after bytes are written at index at
OutPut(buffer, at, bytes) ==
    [i \in DOMAIN buffer \cup (at .. at + Len(bytes) - 1) |->
        IF i >= at /\ i < at + Len(bytes) THEN bytes[i - at + 1] ELSE buffer[i]] @@ <<>>

\* a copy that leaves the window where it is
FlushCopySrcStart(last_index) == 0

\* the index the look-back window is copied from to index 0
FlushCopySrc(last_index) == last_index - OUT_MAX_LOOK_BACK

\* [out, ok]
FlushBuffer(O, e) ==
    IF O.trap # "none" THEN [out |-> O, ok |-> FALSE] ELSE
    LET last_index == O.current_ptr
    IN  IF last_index > OutAlloc(O) \/ last_index < OUT_MAX_LOOK_BACK
        THEN [out |-> [O EXCEPT !.trap = "flush_buffer:slice"], ok |-> FALSE]
        ELSE
        LET shift == FlushCopySrc(last_index)
            \* the hasher is updated with the chunk, then the sink is called
            hashed(chunk) ==
                IF ~e.sink_ok
                THEN [out |-> [O EXCEPT !.crc32 = CrcUpdate(@, chunk),
                                        !.func.refused = @ + 1,
                                        !.func.again = @ \/ O.func.refused > 0],
                      ok |-> FALSE]
                ELSE [out |-> [O EXCEPT
                          !.crc32 = CrcUpdate(@, chunk),
                          !.func.again = @ \/ O.func.refused > 0,
                          !.func.data = @ \o chunk,
                          !.written = @ + (last_index - OUT_MAX_LOOK_BACK),
                          !.buffer = [i \in {j \in DOMAIN O.buffer : j >= OUT_MAX_LOOK_BACK}
                                            \cup {j - shift : j \in {k \in DOMAIN O.buffer :
                                                   k >= shift /\ k < last_index}} |->
                                        IF i < OUT_MAX_LOOK_BACK THEN O.buffer[i + shift]
                                        ELSE O.buffer[i]],
                          !.current_ptr = OUT_MAX_LOOK_BACK],
                      ok |-> TRUE]
        IN  hashed(OutSlice(O, OUT_MAX_LOOK_BACK, last_index, e))

HasWritableLength(O, length) == O.current_ptr + length <= LastUsablePtr(O)

\* [out, ok]
FlushEnsureLength(O, length, e) ==
    IF ~HasWritableLength(O, length) THEN FlushBuffer(O, e) ELSE [out |-> O, ok |-> TRUE]

\* [out, result]: result is always Ok(OutStreamResult)
FinalFlush(O, e) ==
    LET flushed(f) ==
            [out |-> [f.out EXCEPT !.current_ptr = OUT_MAX_LOOK_BACK,
                                   !.crc32 = CrcNew, !.written = 0],
             result |-> [ok |-> TRUE, written |-> f.out.written,
                         crc32 |-> CrcFinalize(f.out.crc32)]]
    IN  flushed(FlushBuffer(O, e))

(***************************************************************************)
(* process_entry.  A DecodeEntryState is kept as the fields process_entry  *)
(* reads: the two bytes of get_literals(), get_literals_count(),           *)
(* get_len_value() and the offset.  The copies are made on the cells of    *)
(* the buffer; a load below the buffer or a store beyond its allocation is *)
(* noted as a trap.                                                        *)
(***************************************************************************)
\* read_unaligned(src) then write_unaligned(dst, word): eight bytes are
\* loaded, then stored
CopyWord(buffer, src, dst, e) ==
    OutPut(buffer, dst, [i \in 1..8 |-> OutGet([buffer |-> buffer], src + i - 1, e)] \o <<>>)

RECURSIVE SeqCopy(_, _, _, _, _)
\* the bytes that for i in 0..8 { *dst.add(i) = *src.add(i) } stores: a
\* byte stored earlier in the loop is loaded again when src + i >= dst
SeqCopy(buffer, src, dst, acc, e) ==
    IF Len(acc) = 8 THEN acc
    ELSE SeqCopy(buffer, src, dst,
                 Append(acc, IF src + Len(acc) < dst
                             THEN OutGet([buffer |-> buffer], src + Len(acc), e)
                             ELSE acc[src + Len(acc) - dst + 1]), e)

\* a copy of eight bytes that loads them all before it stores any
CopyBytesAtOnce(buffer, src, dst, e) == CopyWord(buffer, src, dst, e)

\* for i in 0..8 { *dst.add(i) = *src.add(i) }
CopyBytes8(buffer, src, dst, e) == OutPut(buffer, dst, SeqCopy(buffer, src, dst, <<>>, e))

RECURSIVE SmallOffsetLoop(_, _, _, _, _)
\* the loop of the branch offset > 0 && offset < 8
SmallOffsetLoop(buffer, src, dst, remaining, e) ==
    LET next(b) == IF DOMAIN b = {} \/ remaining - 8 <= 0 THEN b
                   ELSE SmallOffsetLoop(b, src + 8, dst + 8, remaining - 8, e)
    IN  next(CopyBytes8(buffer, src, dst, e))

RECURSIVE WordLoop(_, _, _, _, _)
\* the loop of the branch length > 8
WordLoop(buffer, src, dst, remaining, e) ==
    LET next(b) == IF DOMAIN b = {} \/ remaining - 8 <= 0 THEN b
                   ELSE WordLoop(b, src + 8, dst + 8, remaining - 8, e)
    IN  next(CopyWord(buffer, src + 8, dst + 8, e))

ProcessEntry(O, state, e) ==
    IF O.trap # "none" THEN O ELSE
    LET out_ptr == O.current_ptr + state.literals_count
        src == out_ptr - state.offset
        length == state.len_value
        finish(b) ==
            IF \E i \in DOMAIN b : i >= OutAlloc(O)
            THEN [O EXCEPT !.trap = "process_entry:store"]
            ELSE [O EXCEPT !.buffer = b, !.current_ptr = out_ptr + length]
        copied(b) ==
            IF state.offset > 0 /\ state.offset < 8
            THEN SmallOffsetLoop(b, src, out_ptr, length, e)
            ELSE IF length > 8 THEN WordLoop(b, src, out_ptr, length, e)
            ELSE b
    IN  IF src < 0 THEN [O EXCEPT !.trap = "process_entry:load"]
        ELSE finish(copied(CopyWord(OutPut(O.buffer, O.current_ptr, state.literals),
                                    src, out_ptr, e)))

(***************************************************************************)
(* DecodeEntry: the u32 of a decode table entry, kept as its bit fields    *)
(*   result bits 16..31 (bit 31 is the literal flag), exceptional bit 15,  *)
(*   subtable_pointer bit 14, end_of_block bit 13, extra bits 8..12 (the   *)
(*   number of extra bits, or of subtable bits), length bits 0..7          *)
(***************************************************************************)
\* bitwise or of two numbers below 2^w
OrNum(a, b, w) == BitsNum([i \in 1..w |-> Max(BitOf(a, i - 1), BitOf(b, i - 1))] \o <<>>)

\* bitwise xor of two numbers below 2^w
XorNum(a, b, w) == BitsNum([i \in 1..w |-> (BitOf(a, i - 1) + BitOf(b, i - 1)) % 2] \o <<>>)

\* DecodeEntry::new_result
NewResult(res) ==
    [result |-> res, exceptional |-> FALSE,
     subtable_pointer |-> FALSE, end_of_block |-> FALSE, extra |-> 0, length |-> 0]

\* DecodeEntry::new_literal
NewLiteral(literal) == NewResult(32768 + literal)

\* DecodeEntry::new_length and DecodeEntry::new_offset
NewLength(base, num_extra_bits) == [NewResult(base) EXCEPT !.extra = num_extra_bits]

\* DecodeEntry::end_of_block
EndOfBlock == [NewResult(0) EXCEPT !.exceptional = TRUE, !.end_of_block = TRUE]

\* DecodeEntry::is_literal
IsLiteral(de) == de.result >= 32768

\* DecodeEntry::new_subtable_pointer
NewSubtablePointer(subtable_index, subtable_bits, main_table_bits) ==
    [result |-> subtable_index, exceptional |-> TRUE,
     subtable_pointer |-> TRUE, end_of_block |-> FALSE,
     extra |-> subtable_bits, length |-> main_table_bits]

\* DecodeEntry::make_decode_table_entry: self.0 | len
MakeDecodeTableEntry(de, len) == [de EXCEPT !.length = OrNum(@, len, 8)]

\* PRECODE_DECODE_RESULTS, from symbol 0
PRECODE_DECODE_RESULTS == [sym \in 1..19 |-> NewResult(sym - 1)] \o <<>>

LengthBases ==
    <<3, 4, 5, 6, 7, 8, 9, 10, 11, 13, 15, 17, 19, 23, 27, 31, 35, 43, 51, 59,
      67, 83, 99, 115, 131, 163, 195, 227, 258, 258, 258>>

LengthExtraBits ==
    <<0, 0, 0, 0, 0, 0, 0, 0, 1, 1, 1, 1, 2, 2, 2, 2, 3, 3, 3, 3,
      4, 4, 4, 4, 5, 5, 5, 5, 0, 0, 0>>

\* LITLEN_DECODE_RESULTS, from symbol 0
LITLEN_DECODE_RESULTS ==
    [sym \in 1..288 |->
        IF sym <= 256 THEN NewLiteral(sym - 1)
        ELSE IF sym = 257 THEN EndOfBlock
        ELSE NewLength(LengthBases[sym - 257], LengthExtraBits[sym - 257])] \o <<>>

OffsetBases ==
    <<1, 2, 3, 4, 5, 7, 9, 13, 17, 25, 33, 49, 65, 97, 129, 193, 257, 385, 513, 769,
      1025, 1537, 2049, 3073, 4097, 6145, 8193, 12289, 16385, 24577, 32769, 49153>>

OffsetExtraBits ==
    <<0, 0, 0, 0, 1, 1, 2, 2, 3, 3, 4, 4, 5, 5, 6, 6, 7, 7, 8, 8,
      9, 9, 10, 10, 11, 11, 12, 12, 13, 13, 14, 14>>

\* OFFSET_DECODE_RESULTS, from symbol 0
OFFSET_DECODE_RESULTS ==
    [sym \in 1..32 |-> NewLength(OffsetBases[sym], OffsetExtraBits[sym])] \o <<>>

\* bsr32: the index of the highest set bit of val > 0
Bsr32(val) == CHOOSE i \in 0..31 : 2^i <= val /\ val < 2^(i + 1)

(***************************************************************************)
(* build_decode_table.  lens[sym + 1] is the codeword length of symbol     *)
(* sym.  The table is a function on the indices written; the result is     *)
(* [ok, table, wild, top], wild when a loop of the builder runs off the    *)
(* end of one of its arrays, top the largest index len_counts was read at  *)
(* (the count of the code space reads it at 1..max_codeword_len).          *)
(***************************************************************************)
DEFLATE_MAX_CODEWORD_LEN == 15

\* len_counts[len]; the array has DEFLATE_MAX_CODEWORD_LEN + 1 cells
LenCounts(lens, num_syms) ==
    [len \in 0..DEFLATE_MAX_CODEWORD_LEN |->
        Cardinality({sym \in 0..(num_syms - 1) : lens[sym + 1] = len})]

RECURSIVE CodespaceUnshifted(_, _)
\* codespace_used without the shift: the number of codewords of length 1..len
CodespaceUnshifted(len_counts, len) ==
    IF len = 0 THEN 0 ELSE CodespaceUnshifted(len_counts, len - 1) + len_counts[len]

RECURSIVE CodespaceUsed(_, _)
\* codespace_used after the lengths 1..len have been added
CodespaceUsed(len_counts, len) ==
    IF len = 0 THEN 0 ELSE 2 * CodespaceUsed(len_counts, len - 1) + len_counts[len]

\* the used symbols in the order of the counting sort: by length, then value
SortedSyms(lens, num_syms) ==
    LET used == {sym \in 0..(num_syms - 1) : lens[sym + 1] # 0}
        rank(sym) == Cardinality({s \in used :
                        \/ lens[s + 1] < lens[sym + 1]
                        \/ lens[s + 1] = lens[sym + 1] /\ s < sym})
    IN  [k \in 1..Cardinality(used) |-> CHOOSE sym \in used : rank(sym) = k - 1] \o <<>>

\* copy_nonoverlapping(table, table + cur_table_end, cur_table_end)
DoubleTable(t, cur_table_end) ==
    [i \in DOMAIN t \cup {j + cur_table_end : j \in {k \in DOMAIN t : k < cur_table_end}} |->
        IF i >= cur_table_end /\ (i - cur_table_end) \in DOMAIN t /\ i - cur_table_end < cur_table_end
        THEN t[i - cur_table_end] ELSE t[i]]

RECURSIVE DoubleUpTo(_, _, _, _)
\* while len < table_bits { double; len += 1 }
DoubleUpTo(t, cur_table_end, len, table_bits) ==
    IF len < table_bits
    THEN DoubleUpTo(DoubleTable(t, cur_table_end), 2 * cur_table_end, len + 1, table_bits)
    ELSE t

\* the plain increment of codeword, for the bit-reversed one
NextCodewordPlain(codeword, mask) == (codeword + 1) % (mask + 1)

\* the bit-reversed increment of codeword among the codewords of mask + 1
NextCodeword(codeword, mask) ==
    LET bit == 2^Bsr32(XorNum(codeword, mask, 16))
    IN  (codeword % bit) + bit

\* table[i] = entry; the cells are kept as written values
TableSet(t, i, entry) == (i :> entry) @@ t

RECURSIVE AdvanceLen(_, _)
\* loop { len += 1; if len <= table_bits { double }; count = len_counts[len]; .. }
AdvanceLen(c, st) ==
    LET len == st.len + 1
        st1 == IF len <= c.table_bits
               THEN [st EXCEPT !.len = len, !.t = DoubleTable(st.t, st.cur_table_end),
                               !.cur_table_end = 2 * st.cur_table_end,
                               !.top = Max(@, len)]
               ELSE [st EXCEPT !.len = len, !.top = Max(@, len)]
    IN  IF len > DEFLATE_MAX_CODEWORD_LEN THEN [st1 EXCEPT !.wild = TRUE]
        ELSE IF c.len_counts[len] # 0 THEN [st1 EXCEPT !.count = c.len_counts[len]]
        ELSE AdvanceLen(c, st1)

\* the subtable length without the loop that brings in the longer codewords
SubtableBitsShort(c, subtable_bits, codespace_used) == subtable_bits

RECURSIVE SubtableBits(_, _, _)
\* while codespace_used < (1 << subtable_bits) { .. }: the final subtable_bits,
\* or -1 when the loop runs off the end of len_counts
SubtableBits(c, subtable_bits, codespace_used) ==
    IF codespace_used >= 2^subtable_bits THEN subtable_bits
    ELSE IF c.table_bits + subtable_bits >= DEFLATE_MAX_CODEWORD_LEN THEN -1
    ELSE SubtableBits(c, subtable_bits + 1,
                      2 * codespace_used + c.len_counts[c.table_bits + subtable_bits + 1])

RECURSIVE StrideFill(_, _, _, _, _)
\* loop { table[i] = entry; i += stride; if i >= cur_table_end { break } }
StrideFill(t, i, stride, cur_table_end, entry) ==
    IF i + stride >= cur_table_end THEN TableSet(t, i, entry)
    ELSE StrideFill(TableSet(t, i, entry), i + stride, stride, cur_table_end, entry)

RECURSIVE NextLen(_, _, _)
\* while count == 0 { len += 1; count = len_counts[len] }: the final len, or
\* DEFLATE_MAX_CODEWORD_LEN + 1 when the loop runs off the end of len_counts
NextLen(c, len, count) ==
    IF count # 0 THEN len
    ELSE IF len >= DEFLATE_MAX_CODEWORD_LEN THEN DEFLATE_MAX_CODEWORD_LEN + 1
    ELSE NextLen(c, len + 1, c.len_counts[len + 1])

\* a build that has ended with result r, and one whose next pass starts from st
\* in the loop over the subtables (sub) or over the main table
Built(r) == [done |-> TRUE, res |-> r]

Pass(st, sub) == [done |-> FALSE, sub |-> sub, st |-> st]

\* one pass of the loop over the codewords longer than table_bits
SubtableLoop(c, st) ==
    LET prefix == st.codeword % (2^c.table_bits)
        fresh == prefix # st.subtable_prefix
        subtable_start == IF fresh THEN st.cur_table_end ELSE st.subtable_start
        subtable_bits == IF fresh THEN SubtableBits(c, st.len - c.table_bits, st.count)
                         ELSE st.subtable_bits
        cur_table_end == IF fresh THEN subtable_start + 2^subtable_bits ELSE st.cur_table_end
        t1 == IF fresh
              THEN TableSet(st.t, prefix,
                            NewSubtablePointer(subtable_start, subtable_bits, c.table_bits))
              ELSE st.t
        entry == MakeDecodeTableEntry(c.decode_results[c.sorted_syms[st.k] + 1],
                                      st.len - c.table_bits)
        t2 == StrideFill(t1, subtable_start + (st.codeword \div (2^c.table_bits)),
                         2^(st.len - c.table_bits), cur_table_end, entry)
        len == NextLen(c, st.len, st.count - 1)
        \* the largest index len_counts was read at: table_bits + subtable_bits in
        \* the loop of the subtable length, len in the loop of the next length
        top1 == IF fresh /\ subtable_bits > st.len - c.table_bits
                THEN Max(st.top, c.table_bits + subtable_bits) ELSE st.top
    IN  IF st.k > Len(c.sorted_syms) \/ subtable_bits = -1
        THEN Built([ok |-> FALSE, table |-> st.t, wild |-> TRUE, top |-> st.top])
        ELSE IF st.codeword = 2^st.len - 1
        THEN Built([ok |-> TRUE, table |-> t2, wild |-> FALSE, top |-> top1])
        ELSE IF len > DEFLATE_MAX_CODEWORD_LEN
        THEN Built([ok |-> FALSE, table |-> t2, wild |-> TRUE, top |-> top1])
        ELSE Pass([st EXCEPT !.t = t2, !.k = @ + 1, !.top = Max(top1, len),
                                        !.codeword = NextCodeword(st.codeword, 2^st.len - 1),
                                        !.len = len,
                                        !.count = IF len = st.len THEN st.count - 1
                                                  ELSE c.len_counts[len],
                                        !.subtable_prefix = prefix,
                                        !.subtable_start = subtable_start,
                                        !.subtable_bits = subtable_bits,
                                        !.cur_table_end = cur_table_end], TRUE)

\* one pass of while len <= table_bits { .. }; after it, of the subtables
MainTableLoop(c, st) ==
    IF st.wild THEN Built([ok |-> FALSE, table |-> st.t, wild |-> TRUE, top |-> st.top])
    ELSE IF st.len > c.table_bits
    THEN SubtableLoop(c, [st EXCEPT !.cur_table_end = 2^c.table_bits])
    ELSE IF st.count > 0
    THEN LET t1 == TableSet(st.t, st.codeword,
                     MakeDecodeTableEntry(c.decode_results[c.sorted_syms[st.k] + 1], st.len))
         IN  IF st.codeword = st.cur_table_end - 1
             THEN Built([ok |-> TRUE, wild |-> FALSE, top |-> st.top,
                         table |-> DoubleUpTo(t1, st.cur_table_end, st.len, c.table_bits)])
             ELSE Pass([st EXCEPT !.t = t1, !.k = @ + 1, !.count = @ - 1,
                           !.codeword = NextCodeword(st.codeword, st.cur_table_end - 1)],
                       FALSE)
    ELSE Pass(AdvanceLen(c, st), FALSE)

RECURSIVE TableLoops(_, _, _)
\* the passes of the two loops from x on, n of them at most, the first half
\* of them before the second
TableLoops(c, x, n) ==
    IF x.done THEN x
    ELSE IF n <= 1
    THEN IF x.sub THEN SubtableLoop(c, x.st) ELSE MainTableLoop(c, x.st)
    ELSE CHOOSE r \in {TableLoops(c, half, n - n \div 2) :
                           half \in {TableLoops(c, x, n \div 2)}} : TRUE

\* decode_results[sym + 1] is the static part of the entry of symbol sym
BuildDecodeTable(lens, num_syms, decode_results, table_bits, max_codeword_len) ==
    LET len_counts == LenCounts(lens, num_syms)
        sorted_syms == SortedSyms(lens, num_syms)
        codespace_used == CodespaceUsed(len_counts, max_codeword_len)
        c == [len_counts |-> len_counts, sorted_syms |-> sorted_syms,
              decode_results |-> decode_results, table_bits |-> table_bits]
        first == CHOOSE len \in 1..max_codeword_len :
                    /\ len_counts[len] # 0
                    /\ \A l \in 1..(len - 1) : len_counts[l] = 0
    IN  IF codespace_used > 2^max_codeword_len
        THEN [ok |-> FALSE, table |-> <<>>, wild |-> FALSE, top |-> max_codeword_len]
        ELSE IF codespace_used < 2^max_codeword_len
        THEN IF codespace_used # 0
                /\ (codespace_used # 2^(max_codeword_len - 1) \/ len_counts[1] # 1)
             THEN [ok |-> FALSE, table |-> <<>>, wild |-> FALSE, top |-> max_codeword_len]
             ELSE LET sym == IF codespace_used = 0 THEN 0 ELSE sorted_syms[1]
                      entry == MakeDecodeTableEntry(decode_results[sym + 1], 1)
                  IN  [ok |-> TRUE, wild |-> FALSE, top |-> max_codeword_len,
                       table |-> [i \in 0..(2^table_bits - 1) |-> entry]]
        \* a pass places a codeword or goes to the next length
        ELSE TableLoops(c, Pass([t |-> <<>>, codeword |-> 0, len |-> first,
                                 count |-> len_counts[first], k |-> 1,
                                 cur_table_end |-> 2^first, subtable_prefix |-> -1,
                                 subtable_start |-> 0, subtable_bits |-> 0, wild |-> FALSE,
                                 top |-> max_codeword_len], FALSE),
                        num_syms + DEFLATE_MAX_CODEWORD_LEN + 2).res

(***************************************************************************)
(* The program state                                                       *)
(*   in_stream, out_stream  the two stream objects of the driver           *)
(*   bs          the bit reader of the member being decoded                *)
(*   tmp_data    DecompressTempData: is_final_block, block_type            *)
(*   tables      LibdeflateDecodeTables                                    *)
(*   length      the bytes read_exact_into still has to copy               *)
(*   pc          the program point: "driver" (the loop condition of        *)
(*               decompress_file_buffered), "gzip" (entry of               *)
(*               libdeflate_gzip_decompress), "block" (head of the block   *)
(*               loop), "read_exact_into" (head of its copy loop),         *)
(*               "huffman" (a Huffman block header has been read; the body *)
(*               of such a block is not part of this model and no stream   *)
(*               of the catalogue reaches one),                            *)
(*               "done" (the driver has returned or the process died),     *)
(*               "tables" (SpecTables: the driver does not run)            *)
(*   result      "None" while running, then "Ok", "BadData",               *)
(*               "InsufficientSpace" or "Abort"                            *)
(*   obs         history only: for the current member its number, the      *)
(*               stream offset of its first byte, the number of sink bytes *)
(*               accepted before it, the offset at which DEFLATE decoding  *)
(*               started and the offset of its trailer (-1: not yet) and   *)
(*               what libdeflate_gzip_decompress returned for it; the      *)
(*               number of members that returned Ok; the number of block   *)
(*               headers decoded; of the last one, LEN and NLEN as read    *)
(*               (stored) and the first code length symbol (dynamic)       *)
(*   build       one call of build_decode_table on its own and a lookup in *)
(*               the table it built (SpecTables); idle in a run of the     *)
(*               driver                                                    *)
(***************************************************************************)
VARIABLES in_stream, out_stream, bs, tmp_data, tables, length, pc, result, obs,
          build

vars == <<in_stream, out_stream, bs, tmp_data, tables, length, pc, result, obs, build>>

Cur ==
    [in |-> in_stream, out |-> out_stream, bs |-> bs, tmp |-> tmp_data,
     tables |-> tables, length |-> length, pc |-> pc, result |-> result, obs |-> obs]

Apply(S) ==
    /\ in_stream' = S.in
    /\ out_stream' = S.out
    /\ bs' = S.bs
    /\ tmp_data' = S.tmp
    /\ tables' = S.tables
    /\ length' = S.length
    /\ pc' = S.pc
    /\ result' = S.result
    /\ obs' = S.obs
    /\ UNCHANGED build

\* the driver returns r
Return(S, r) == [S EXCEPT !.pc = "done", !.result = r]

\* a panic or a wild access ends the process: of the step S0 -> S only what
\* was done to the streams before it remains; the result of a member is noted
Settle(S0, S) ==
    LET S2 == IF S.in.trap # "none" \/ S.out.trap # "none"
              THEN Return([S0 EXCEPT !.in = S.in, !.out = S.out], "Abort") ELSE S
    IN  IF S2.result # "None" /\ S0.pc # "driver"
        THEN [S2 EXCEPT !.obs.member_result = S2.result] ELSE S2

\* no table is being built
NoBuild == [phase |-> "idle"]

\* the codes the decode tables hold: none after allocation, the static
\* codes, the codes of a dynamic block given by its code lengths, or what a
\* dynamic header that failed has left
NoCodes == [kind |-> "default", lens |-> <<>>]
StaticCodes == [kind |-> "static", lens |-> <<>>]
DynamicCodes(lens) == [kind |-> "dynamic", lens |-> lens]
PartialCodes == [kind |-> "partial", lens |-> <<>>]

\* libdeflate_alloc_decode_tables
LibdeflateAllocDecodeTables == [static_codes_loaded |-> FALSE, codes |-> NoCodes]

\* a dynamic block that leaves the flag as it is
KeepStaticLoaded(T) == T

\* tables.static_codes_loaded = false
ClearStaticLoaded(T) == [T EXCEPT !.static_codes_loaded = FALSE]

\* the tables after the dynamic branch of decode_huffman_block
DynamicTables(T, ok, lens) ==
    [ClearStaticLoaded(T) EXCEPT !.codes = IF ok THEN DynamicCodes(lens) ELSE PartialCodes]

\* a static block that sets the flag and leaves the tables as they are
MarkStaticLoaded(T) == [T EXCEPT !.static_codes_loaded = TRUE]

\* load_static_huffman_block: the codeword lengths of the 288 litlen symbols
\* followed by those of the 32 offset symbols
StaticCodeLens ==
    [i \in 1..320 |-> IF i <= 144 THEN 8 ELSE IF i <= 256 THEN 9
                      ELSE IF i <= 280 THEN 7 ELSE IF i <= 288 THEN 8 ELSE 5] \o <<>>

\* the codeword lengths the decode tables were last built from, as far as
\* they are known
CodeLens(codes) ==
    IF codes.kind = "static" THEN StaticCodeLens
    ELSE IF codes.kind = "dynamic" THEN codes.lens ELSE <<>>

\* the tables after the static branch of decode_huffman_block
StaticTables(T) ==
    IF T.static_codes_loaded THEN T
    ELSE [T EXCEPT !.static_codes_loaded = TRUE, !.codes = StaticCodes]

NewObs ==
    [member |-> 0, member_start |-> 0, sink_base |-> 0, deflate_start |-> -1,
     trailer_at |-> -1, member_result |-> "None", members_ok |-> 0, blocks |-> 0,
     len |-> -1, nlen |-> -1, first_presym |-> -1]

(***************************************************************************)
(* decompress_file_buffered: the loop condition                            *)
(***************************************************************************)
DriverStep(S, e) ==
    LET entered(v) ==
            IF v.ok
            THEN [S EXCEPT !.in = v.in, !.pc = "gzip",
                           !.obs.member = @ + 1,
                           !.obs.member_start = TellStreamPos(v.in),
                           !.obs.sink_base = Len(S.out.func.data),
                           !.obs.deflate_start = -1,
                           !.obs.trailer_at = -1,
                           !.obs.member_result = "None"]
            ELSE Return([S EXCEPT !.in = v.in], "Ok")
    IN  entered(HasValidBytesSlow(EnsureOverreadLength(S.in, e), e))

(***************************************************************************)
(* libdeflate_gzip_decompress: the header                                  *)
(***************************************************************************)
RECURSIVE SkipZeroTerminated(_, _)
\* while in_stream.read_byte() != 0 {}
SkipZeroTerminated(I, e) ==
    LET skipped(r) == IF r.val = 0 THEN r.in ELSE SkipZeroTerminated(r.in, e)
    IN  skipped(ReadByte(I, e))

\* move_stream_pos(n); safety_check!(has_valid_bytes_slow())
SkipChecked(I, n, e) == HasValidBytesSlow(MoveStreamPos(I, n, e), e)

\* [in, ok]: ok is FALSE where the code returns Err(BadData)
GzipHeader(I, e) ==
    LET bad(in) == [in |-> in, ok |-> FALSE]
        \* CRC16 for gzip header
        hcrc(flg, in) ==
            IF ByteAnd(flg, GZIP_FHCRC) # 0
            THEN SkipChecked(in, 2, e) ELSE [in |-> in, ok |-> TRUE]
        \* File comment (zero terminated)
        comment(flg, in) ==
            hcrc(flg, IF ByteAnd(flg, GZIP_FCOMMENT) # 0
                      THEN SkipZeroTerminated(in, e) ELSE in)
        \* Original file name (zero terminated)
        name(flg, in) ==
            comment(flg, IF ByteAnd(flg, GZIP_FNAME) # 0
                         THEN SkipZeroTerminated(in, e) ELSE in)
        \* Extra field
        extra_skipped(flg, x) == IF ~x.ok THEN x ELSE name(flg, x.in)
        xlen_read(xlen) == SkipChecked(xlen.in, xlen.val, e)
        extra(flg, in) ==
            extra_skipped(flg, IF ByteAnd(flg, GZIP_FEXTRA) # 0
                               THEN xlen_read(ReadLeU16(in, e))
                               ELSE [in |-> in, ok |-> TRUE])
        \* OS, then the reserved bits of FLG
        os(flg, x) ==
            IF ~x.ok THEN x
            ELSE IF ByteAnd(flg, GZIP_FRESERVED) # 0 THEN bad(x.in)
            ELSE extra(flg, x.in)
        \* XFL
        xfl(flg, x) == IF ~x.ok THEN x ELSE os(flg, SkipChecked(x.in, 1, e))
        \* MTIME
        mtime(flg, x) == IF ~x.ok THEN x ELSE xfl(flg, SkipChecked(x.in, 1, e))
        flg_read(r) == mtime(r.val, SkipChecked(r.in, 4, e))
        \* CM
        cm(r) == IF r.val # GZIP_CM_DEFLATE THEN bad(r.in) ELSE flg_read(ReadByte(r.in, e))
        \* ID2
        id2(r) == IF r.val # GZIP_ID2 THEN bad(r.in) ELSE cm(ReadByte(r.in, e))
        \* ID1
        id1(r) == IF r.val # GZIP_ID1 THEN bad(r.in) ELSE id2(ReadByte(r.in, e))
    IN  id1(ReadByte(I, e))

\* the state in which deflate_decompress_template starts
NewTempData == [is_final_block |-> FALSE, block_type |-> 0]

GzipStep(S, e) ==
    LET started(h) ==
            IF ~h.ok THEN Return([S EXCEPT !.in = h.in], "BadData")
            ELSE [S EXCEPT !.in = h.in, !.bs = NewBitStream, !.tmp = NewTempData,
                           !.pc = "block", !.obs.deflate_start = TellStreamPos(h.in)]
    IN  started(GzipHeader(S.in, e))

(***************************************************************************)
(* decode_huffman_block and the block headers                              *)
(***************************************************************************)
PRECODE_TABLEBITS == 7
\* the sizes of the three table arrays
PRECODE_ENOUGH == 128
LITLEN_ENOUGH == 1334
OFFSET_ENOUGH == 402
LITLEN_TABLEBITS == 10
OFFSET_TABLEBITS == 8
DEFLATE_NUM_PRECODE_SYMS == 19
DEFLATE_NUM_LITLEN_SYMS == 288
DEFLATE_NUM_OFFSET_SYMS == 32
DEFLATE_MAX_PRE_CODEWORD_LEN == 7
DEFLATE_MAX_LITLEN_CODEWORD_LEN == 15
DEFLATE_MAX_OFFSET_CODEWORD_LEN == 15

DEFLATE_PRECODE_LENS_PERMUTATION ==
    <<16, 17, 18, 0, 8, 7, 9, 6, 10, 5, 11, 4, 12, 3, 13, 2, 14, 1, 15>>

build_precode_decode_table(precode_lens) ==
    BuildDecodeTable(precode_lens, DEFLATE_NUM_PRECODE_SYMS, PRECODE_DECODE_RESULTS,
                     PRECODE_TABLEBITS, DEFLATE_MAX_PRE_CODEWORD_LEN)

\* lens[sym + 1], read from num_litlen_syms on
build_offset_decode_table(lens, num_litlen_syms, num_offset_syms) ==
    BuildDecodeTable([i \in 1..num_offset_syms |-> lens[num_litlen_syms + i]] \o <<>>,
                     num_offset_syms, OFFSET_DECODE_RESULTS,
                     OFFSET_TABLEBITS, DEFLATE_MAX_OFFSET_CODEWORD_LEN)

build_litlen_decode_table(lens, num_litlen_syms) ==
    BuildDecodeTable(lens, num_litlen_syms, LITLEN_DECODE_RESULTS,
                     LITLEN_TABLEBITS, DEFLATE_MAX_LITLEN_CODEWORD_LEN)

RECURSIVE ReadPrecodeLens(_, _, _, _, _)
\* for i in 0..num_explicit_precode_lens: [p, lens], lens[sym + 1] from 0
ReadPrecodeLens(P, i, num_explicit_precode_lens, precode_lens, e) ==
    LET popped(v) ==
            ReadPrecodeLens(v.p, i + 1, num_explicit_precode_lens,
                [precode_lens EXCEPT ![DEFLATE_PRECODE_LENS_PERMUTATION[i + 1] + 1] = v.val], e)
    IN  IF i >= num_explicit_precode_lens THEN [p |-> P, lens |-> precode_lens]
        ELSE popped(PopBits(EnsureBits(P, TRUE, 3, e), 3, e))

\* lens with the cells i .. i + n - 1 set to v; lens[k + 1] is cell k
LensFill(lens, i, n, v) ==
    [k \in 1..Max(Len(lens), i + n) |->
        IF k > i /\ k <= i + n THEN v ELSE IF k <= Len(lens) THEN lens[k] ELSE 0] \o <<>>

RECURSIVE ReadLens(_, _, _, _, _, _)
\* while i < num_litlen_syms + num_offset_syms: [p, ok, lens]
ReadLens(P, table, lens, i, total, e) ==
    LET \* presym 16, 17, 18 with the extra bits r popped
        rep16(r) == ReadLens(r.p, table, LensFill(lens, i, 6, lens[i]),
                             i + 3 + r.val, total, e)
        rep17(r) == ReadLens(r.p, table, LensFill(lens, i, 10, 0), i + 3 + r.val, total, e)
        rep18(r) == ReadLens(r.p, table, LensFill(lens, i, 11 + r.val, 0),
                             i + 11 + r.val, total, e)
        \* the bits of presym have been removed
        decoded(P2, presym) ==
            IF presym < 16
            THEN ReadLens(P2, table, LensFill(lens, i, 1, presym), i + 1, total, e)
            ELSE IF presym = 16
            THEN IF i = 0 THEN [p |-> P2, ok |-> FALSE, lens |-> lens]
                 ELSE rep16(PopBits(P2, 2, e))
            ELSE IF presym = 17 THEN rep17(PopBits(P2, 3, e))
            ELSE rep18(PopBits(P2, 7, e))
        looked_up(P1, entry) == decoded(RemoveBits(P1, entry.length, e), entry.result)
        ensured(P1) == looked_up(P1, table[Bits(P1.bs, DEFLATE_MAX_PRE_CODEWORD_LEN)])
    IN  IF i >= total \/ P.in.trap # "none" THEN [p |-> P, ok |-> TRUE, lens |-> lens]
        ELSE ensured(EnsureBits(P, TRUE, DEFLATE_MAX_PRE_CODEWORD_LEN + 7, e))

\* [p, ok, lens, first_presym, num_litlen_syms, num_offset_syms]; first_presym
\* is the first code length symbol decoded (-1: the precode was refused)
DecodeDynamicHuffmanBlock(P, e) ==
    LET out(p, ok, lens, first_presym, num_litlen_syms, num_offset_syms) ==
            [p |-> p, ok |-> ok, lens |-> lens, first_presym |-> first_presym,
             num_litlen_syms |-> num_litlen_syms, num_offset_syms |-> num_offset_syms]
        \* the code lengths r have been read: the offset table, then the litlen table
        lens_read(r, first_presym, num_litlen_syms, num_offset_syms) ==
            IF r.p.in.trap # "none" \/ ~r.ok
            THEN out(r.p, FALSE, <<>>, first_presym, num_litlen_syms, num_offset_syms)
            ELSE IF ~build_offset_decode_table(r.lens, num_litlen_syms, num_offset_syms).ok
            THEN out(r.p, FALSE, <<>>, first_presym, num_litlen_syms, num_offset_syms)
            ELSE IF ~build_litlen_decode_table(r.lens, num_litlen_syms).ok
            THEN out(r.p, FALSE, <<>>, first_presym, num_litlen_syms, num_offset_syms)
            ELSE out(r.p, TRUE, r.lens, first_presym, num_litlen_syms, num_offset_syms)
        precode_built(pre, precode, first_presym, num_litlen_syms, num_offset_syms) ==
            IF pre.p.in.trap # "none" \/ ~precode.ok
            THEN out(pre.p, FALSE, <<>>, first_presym, num_litlen_syms, num_offset_syms)
            ELSE lens_read(ReadLens(pre.p, precode.table, <<>>, 0,
                                    num_litlen_syms + num_offset_syms, e),
                           first_presym, num_litlen_syms, num_offset_syms)
        \* the symbol the precode table gives for the bits that follow the precode
        first_of(first, precode) ==
            IF precode.ok
            THEN precode.table[Bits(first.bs, DEFLATE_MAX_PRE_CODEWORD_LEN)].result
            ELSE -1
        with_precode(pre, precode, num_litlen_syms, num_offset_syms) ==
            precode_built(pre, precode,
                first_of(EnsureBits(pre.p, TRUE, DEFLATE_MAX_PRE_CODEWORD_LEN + 7, e), precode),
                num_litlen_syms, num_offset_syms)
        precode_lens_read(pre, num_litlen_syms, num_offset_syms) ==
            with_precode(pre, build_precode_decode_table(pre.lens),
                         num_litlen_syms, num_offset_syms)
        hclen_read(hclen, num_litlen_syms, num_offset_syms) ==
            precode_lens_read(
                ReadPrecodeLens(hclen.p, 0, hclen.val + 4,
                                [sym \in 1..DEFLATE_NUM_PRECODE_SYMS |-> 0] \o <<>>, e),
                num_litlen_syms, num_offset_syms)
        hdist_read(hdist, num_litlen_syms) ==
            hclen_read(PopBits(hdist.p, 4, e), num_litlen_syms, hdist.val + 1)
        hlit_read(hlit) == hdist_read(PopBits(hlit.p, 5, e), hlit.val + 257)
    IN  hlit_read(PopBits(P, 5, e))

\* decode_huffman_block: one pass of the block loop that reads a block header
DecodeHuffmanBlockStep(S, e) ==
    LET With(T, P) == [T EXCEPT !.bs = P.bs, !.in = P.in]
        \* the header fields, noted
        S1(bfinal, btype, len, nlen, first_presym) ==
            [S EXCEPT !.tmp = [is_final_block |-> bfinal.val # 0, block_type |-> btype.val],
                      !.obs.blocks = @ + 1,
                      !.obs.len = len,
                      !.obs.nlen = nlen,
                      !.obs.first_presym = first_presym]
        dynamic(bfinal, btype, dyn) ==
            IF ~dyn.ok
            THEN Return([With(S1(bfinal, btype, -1, -1, dyn.first_presym), dyn.p)
                            EXCEPT !.tables = DynamicTables(@, FALSE, <<>>)], "BadData")
            ELSE [With(S1(bfinal, btype, -1, -1, dyn.first_presym), dyn.p)
                      EXCEPT !.tables = DynamicTables(@, TRUE, dyn.lens),
                             !.pc = "huffman"]
        \* decode_uncompressed_block
        nlen_read(bfinal, btype, len, nlen) ==
            IF len.val # NotU16(nlen.val)
            THEN Return(With(S1(bfinal, btype, len.val, nlen.val, -1), nlen.p), "BadData")
            ELSE IF len.val = 0 THEN With(S1(bfinal, btype, len.val, nlen.val, -1), nlen.p)
            ELSE [With(S1(bfinal, btype, len.val, nlen.val, -1), nlen.p)
                      EXCEPT !.pc = "read_exact_into", !.length = len.val]
        len_read(bfinal, btype, len) == nlen_read(bfinal, btype, len, ReadU16(len.p, e))
        btype_read(bfinal, btype) ==
            IF btype.val = DEFLATE_BLOCKTYPE_DYNAMIC_HUFFMAN
            THEN dynamic(bfinal, btype, DecodeDynamicHuffmanBlock(btype.p, e))
            ELSE IF btype.val = DEFLATE_BLOCKTYPE_UNCOMPRESSED
            THEN len_read(bfinal, btype, ReadU16(AlignInput(btype.p, e), e))
            ELSE IF btype.val # DEFLATE_BLOCKTYPE_STATIC_HUFFMAN
            THEN Return(With(S1(bfinal, btype, -1, -1, -1), btype.p), "BadData")
            ELSE [With(S1(bfinal, btype, -1, -1, -1), btype.p)
                      EXCEPT !.tables = StaticTables(@), !.pc = "huffman"]
        bfinal_read(bfinal) == btype_read(bfinal, PopBits(bfinal.p, 2, e))
        ensured(P1) == bfinal_read(PopBits(P1, 1, e))
    IN  ensured(EnsureBits([bs |-> S.bs, in |-> S.in], TRUE, 1 + 2 + 5 + 5 + 4, e))

(***************************************************************************)
(* read_exact_into: one pass of its copy loop (the stored-block copy)      *)
(***************************************************************************)
ReadExactIntoStep(S, e) ==
    LET \* one chunk, with room O1 to write it to and the input I1 to take it from
        chunk(O1, I1) ==
            LET under == I1.position > I1.end_position
                max_copyable ==
                    IF under THEN Min(S.length, CHUNK_SIZE)
                    ELSE Min(Min(S.length, CHUNK_SIZE), I1.end_position - I1.position)
                \* the copy moves two words at a time
                copied == 16 * ((max_copyable + 15) \div 16)
                S1 == [S EXCEPT !.out = O1, !.in = I1]
            IN  IF I1.trap # "none" \/ O1.trap # "none" THEN S1
                ELSE IF under /\ ~e.wrap
                THEN [S1 EXCEPT !.in = Trap(@, "read_exact_into:max_copyable")]
                ELSE IF I1.position + copied > InAlloc(I1)
                THEN [S1 EXCEPT !.in = Trap(@, "read_exact_into:src")]
                ELSE IF O1.current_ptr + copied > OutAlloc(O1)
                THEN [S1 EXCEPT !.out.trap = "read_exact_into:dst"]
                ELSE [S1 EXCEPT
                         !.out.buffer = OutPut(@, O1.current_ptr,
                                               BufSlice(I1.buffer, I1.position, copied, e)),
                         !.out.current_ptr = @ + max_copyable,
                         !.in.position = @ + max_copyable,
                         !.in.wrapped = @ \/ under,
                         !.length = @ - max_copyable,
                         !.pc = IF S.length = max_copyable THEN "block"
                                ELSE "read_exact_into"]
    IN  chunk(FlushEnsureLength(S.out, CHUNK_SIZE, e).out, EnsureOverreadLength(S.in, e))

(***************************************************************************)
(* The end of a member: the block loop breaks, deflate_decompress_template *)
(* aligns the input and returns, libdeflate_gzip_decompress flushes and    *)
(* checks the trailer                                                      *)
(***************************************************************************)
GzipTrailerStep(S, e) ==
    LET S1(a, ff) ==
            [S EXCEPT !.bs = a.bs, !.out = ff.out, !.obs.trailer_at = TellStreamPos(a.in)]
        isize_read(a, ff, expected_written) ==
            IF Le4(ff.result.written) # expected_written.val
            THEN Return([S1(a, ff) EXCEPT !.in = expected_written.in], "BadData")
            ELSE [S1(a, ff) EXCEPT !.in = expected_written.in, !.pc = "driver",
                                   !.obs.member_result = "Ok", !.obs.members_ok = @ + 1]
        crc_read(a, ff, gzip_crc) ==
            IF ff.result.crc32 # gzip_crc.val
            THEN Return([S1(a, ff) EXCEPT !.in = gzip_crc.in], "BadData")
            ELSE isize_read(a, ff, ReadLeU32(gzip_crc.in, e))
        flushed(a, ff) ==
            IF ~ff.result.ok THEN Return([S1(a, ff) EXCEPT !.in = a.in], "InsufficientSpace")
            ELSE crc_read(a, ff, ReadLeU32(a.in, e))
        aligned(a) ==
            flushed(a, IF a.in.trap = "none" THEN FinalFlush(S.out, e)
                       ELSE [out |-> S.out,
                             result |-> [ok |-> TRUE, written |-> 0, crc32 |-> <<>>]])
    IN  aligned(AlignInput([bs |-> S.bs, in |-> S.in], e))

(***************************************************************************)
(* The streams the driver is run on                                        *)
(***************************************************************************)
Le2(n) == <<n % 256, n \div 256>>

\* a gzip header with the given FLG, extra field, name and comment
Header(flg, extra, name, comment) ==
    <<GZIP_ID1, GZIP_ID2, GZIP_CM_DEFLATE, flg, 0, 0, 0, 0, 0, 255>>
    \o (IF ByteAnd(flg, GZIP_FEXTRA) # 0 THEN Le2(Len(extra)) \o extra ELSE <<>>)
    \o (IF ByteAnd(flg, GZIP_FNAME) # 0 THEN name \o <<0>> ELSE <<>>)
    \o (IF ByteAnd(flg, GZIP_FCOMMENT) # 0 THEN comment \o <<0>> ELSE <<>>)
    \o (IF ByteAnd(flg, GZIP_FHCRC) # 0 THEN <<0, 0>> ELSE <<>>)

\* a stored block: BFINAL, BTYPE = 0, LEN, NLEN, data
Stored(final, data) == <<final>> \o Le2(Len(data)) \o Le2(65535 - Len(data)) \o data

\* CRC32 and ISIZE of the payload
Trailer(payload) == Crc32(payload) \o Le4(Len(payload))

\* a member: its bytes and the payload it encodes
Member(header, deflate, payload) ==
    [bytes |-> header \o deflate \o Trailer(payload), payload |-> payload]

PlainHeader == Header(0, <<>>, <<>>, <<>>)

MemberAB == Member(PlainHeader, Stored(1, <<65, 66>>), <<65, 66>>)
MemberEmpty == Member(PlainHeader, Stored(1, <<>>), <<>>)
MemberTwoBlocks == Member(PlainHeader, Stored(0, <<65>>) \o Stored(1, <<66>>), <<65, 66>>)
MemberExtra == Member(Header(4, <<1, 2, 3>>, <<>>, <<>>), Stored(1, <<67>>), <<67>>)
MemberName == Member(Header(8, <<>>, <<110>>, <<>>), Stored(1, <<67>>), <<67>>)
MemberComment == Member(Header(16, <<>>, <<>>, <<99>>), Stored(1, <<67>>), <<67>>)
MemberHcrc == Member(Header(2, <<>>, <<>>, <<>>), Stored(1, <<67>>), <<67>>)
MemberAllFields == Member(Header(30, <<1, 2, 3>>, <<110>>, <<99, 100>>), Stored(1, <<67>>), <<67>>)

\* the length of the long extra field
LongExtraLen == 40

MemberLongExtra ==
    Member(Header(4, [i \in 1..LongExtraLen |-> i] \o <<>>, <<>>, <<>>), Stored(1, <<67>>), <<67>>)

ValidMembers ==
    {MemberAB, MemberEmpty, MemberTwoBlocks, MemberExtra, MemberName, MemberComment,
     MemberHcrc, MemberAllFields, MemberLongExtra}

\* s with byte i (from 1) replaced by b
Patch(s, i, b) == [s EXCEPT ![i] = b]

\* members whose header is refused: ID1, ID2, CM, the reserved bits of FLG
BadHeaderStreams ==
    {Patch(MemberAB.bytes, 1, 30), Patch(MemberAB.bytes, 2, 138), Patch(MemberAB.bytes, 3, 7),
     Patch(MemberAB.bytes, 4, 32), Patch(MemberAB.bytes, 4, 64), Patch(MemberAB.bytes, 4, 128),
     Patch(MemberName.bytes, 4, 232)}

\* a final block of type 3
StreamBtype3 == PlainHeader \o <<7, 0, 0, 0, 0>> \o Trailer(<<>>)

\* a stored block whose NLEN is not the complement of LEN
StreamBadNlen == PlainHeader \o <<1, 2, 0, 0, 0, 65, 66>> \o Trailer(<<65, 66>>)

\* a dynamic block (HLIT = HDIST = HCLEN = 0, precode lengths 1 for the
\* symbols 16 and 17) whose first code length symbol is 16
StreamFirstSym16 == PlainHeader \o <<5, 0, 18, 0, 0, 0, 0, 0>> \o Trailer(<<>>)

\* a dynamic block whose precode is overfull (three codewords of length 1)
StreamBadPrecode == PlainHeader \o <<5, 0, 146, 0, 0, 0, 0, 0>> \o Trailer(<<>>)

\* a stored block whose NLEN is the two's complement of LEN
StreamNegNlen == PlainHeader \o <<1, 2, 0, 254, 255, 65, 66>> \o Trailer(<<65, 66>>)

BadBlockStreams ==
    {StreamBtype3, StreamBadNlen, StreamNegNlen, StreamFirstSym16, StreamBadPrecode}

\* a wrong CRC32, a wrong ISIZE
BadTrailerStreams ==
    {Patch(MemberAB.bytes, Len(MemberAB.bytes) - 7, 0),
     Patch(MemberAB.bytes, Len(MemberAB.bytes) - 3, 3)}

\* two stored blocks A and B under the trailer of the payload AAB with ISIZE 2
StreamCrafted ==
    PlainHeader \o Stored(0, <<65>>) \o Stored(1, <<66>>) \o Crc32(<<65, 65, 66>>) \o Le4(2)

\* the proper prefixes of s
Prefixes(s) == {SubSeq(s, 1, n) : n \in 1..(Len(s) - 1)}

TruncatedStreams ==
    Prefixes(MemberAB.bytes) \cup Prefixes(MemberEmpty.bytes)
    \cup {MemberAB.bytes \o t : t \in Prefixes(MemberName.bytes)}

TwoMemberStreams ==
    {MemberAB.bytes \o MemberName.bytes, MemberTwoBlocks.bytes \o MemberAB.bytes,
     MemberEmpty.bytes \o MemberAllFields.bytes, MemberAB.bytes \o MemberTwoBlocks.bytes}

Streams ==
    {m.bytes : m \in ValidMembers} \cup TwoMemberStreams \cup BadHeaderStreams
    \cup BadBlockStreams \cup BadTrailerStreams \cup {StreamCrafted} \cup TruncatedStreams

\* the most bytes the source returns per call
ReadOne == 1
ReadFew == 3
ReadFull == 4096

MaxReads == {ReadOne, ReadFew, ReadFull}

BufSizeSmall == 32
BufSizeLarge == 512

BufSizes == {BufSizeSmall, BufSizeLarge}

\* the most sink calls that are refused in one run
MaxSinkRefusals == 1

(***************************************************************************)
(* The driver as a state machine                                           *)
(***************************************************************************)
Init ==
    \E file \in Streams, max_read \in MaxReads, buf_size \in BufSizes :
        /\ in_stream = NewInput(file, max_read, buf_size)
        /\ out_stream = NewOutput(buf_size)
        /\ bs = NewBitStream
        /\ tmp_data = NewTempData
        /\ tables = LibdeflateAllocDecodeTables
        /\ length = 0
        /\ pc = "driver"
        /\ result = "None"
        /\ obs = NewObs
        /\ build = NoBuild

\* the environments of a step from the current state
Envs ==
    {e \in Environments :
        /\ in_stream.wrapped => e.wrap
        /\ ~e.sink_ok => out_stream.func.refused < MaxSinkRefusals}

DecompressFileBuffered ==
    /\ pc = "driver"
    /\ \E e \in Envs : Apply(Settle(Cur, DriverStep(Cur, e)))

LibdeflateGzipDecompress ==
    /\ pc = "gzip"
    /\ \E e \in Envs : Apply(Settle(Cur, GzipStep(Cur, e)))

DecodeHuffmanBlock ==
    /\ pc = "block"
    /\ ~tmp_data.is_final_block
    /\ \E e \in Envs : Apply(Settle(Cur, DecodeHuffmanBlockStep(Cur, e)))

ReadExactInto ==
    /\ pc = "read_exact_into"
    /\ \E e \in Envs : Apply(Settle(Cur, ReadExactIntoStep(Cur, e)))

GzipTrailer ==
    /\ pc = "block"
    /\ tmp_data.is_final_block
    /\ \E e \in Envs : Apply(Settle(Cur, GzipTrailerStep(Cur, e)))

Next ==
    \/ DecompressFileBuffered
    \/ LibdeflateGzipDecompress
    \/ DecodeHuffmanBlock
    \/ ReadExactInto
    \/ GzipTrailer

Spec == Init /\ [][Next]_vars

\* the driver runs in one thread, which is never suspended for ever: a step
\* that can be taken is taken
SpecLive == Spec /\ WF_vars(Next)

\* the environments of a step in which the sink accepts what it is given
SinkOkEnvs == {e \in Envs : e.sink_ok}

\* the step the driver takes next from S: the handler control is in
DriverPass(S, e) ==
    IF S.pc = "driver" THEN DriverStep(S, e)
    ELSE IF S.pc = "gzip" THEN GzipStep(S, e)
    ELSE IF S.pc = "read_exact_into" THEN ReadExactIntoStep(S, e)
    ELSE IF S.tmp.is_final_block THEN GzipTrailerStep(S, e)
    ELSE DecodeHuffmanBlockStep(S, e)

(***************************************************************************)
(* build_decode_table on its own: every vector of codeword lengths over a  *)
(* small alphabet is given to the builder, then a bit pattern is looked up *)
(* in the table it built.  decode_results is that of the precode, whose    *)
(* results are the symbols themselves.                                     *)
(***************************************************************************)
\* the number of symbols of the alphabet
NumSyms == 5

\* max_codeword_len of the code
MaxCodewordLen == 4

LenVectors == [1..NumSyms -> 0..MaxCodewordLen]

\* the table_bits the builder is called with
TableBitsChoices == 1..MaxCodewordLen

\* the bits that follow in the input, the first one lowest
BitPatterns == 0..(2^MaxCodewordLen - 1)

\* a cell of the table the builder did not write
Unwritten == NewResult(-1)

TableGet(table, i) == IF i \in DOMAIN table THEN table[i] ELSE Unwritten

\* the lookup of the decoder: the main table is indexed with the next
\* table_bits bits; at a subtable pointer these bits are removed and the
\* subtable is indexed with the next get_subtable_length() bits.
\* [entry, accesses, removed]
Lookup(table, table_bits, pattern) ==
    LET main == TableGet(table, pattern % (2^table_bits))
        rest == pattern \div (2^table_bits)
    IN  IF main.subtable_pointer
        THEN [entry |-> TableGet(table, main.result + (rest % (2^main.extra))),
              accesses |-> 2, removed |-> table_bits]
        ELSE [entry |-> main, accesses |-> 1, removed |-> 0]

\* codes of the three alphabets at their real sizes: lens padded with unused
\* symbols up to the n symbols of the alphabet
PadLens(lens, n) == lens \o [i \in 1..(n - Len(lens)) |-> 0]

SizedCodes ==
    {[kind |-> "precode", lens |-> PadLens(<<1, 2, 3, 4, 5, 6, 7, 7>>, DEFLATE_NUM_PRECODE_SYMS)],
     [kind |-> "litlen", lens |-> SubSeq(StaticCodeLens, 1, DEFLATE_NUM_LITLEN_SYMS)],
     [kind |-> "litlen",
      lens |-> PadLens([i \in 1..14 |-> i] \o <<15, 15>>, DEFLATE_NUM_LITLEN_SYMS)],
     [kind |-> "litlen",
      lens |-> PadLens([i \in 1..8 |-> i] \o [i \in 1..8 |-> 11], DEFLATE_NUM_LITLEN_SYMS)],
     [kind |-> "offset", lens |-> [i \in 1..DEFLATE_NUM_OFFSET_SYMS |-> 5]],
     [kind |-> "offset",
      lens |-> PadLens([i \in 1..11 |-> i] \o <<12, 12>>, DEFLATE_NUM_OFFSET_SYMS)],
     [kind |-> "offset",
      lens |-> PadLens([i \in 1..5 |-> i] \o [i \in 1..16 |-> 9], DEFLATE_NUM_OFFSET_SYMS)]}

InitTables ==
    /\ in_stream = NewInput(<<>>, ReadFull, BufSizeSmall)
    /\ out_stream = NewOutput(BufSizeSmall)
    /\ bs = NewBitStream
    /\ tmp_data = NewTempData
    /\ tables = LibdeflateAllocDecodeTables
    /\ length = 0
    /\ pc = "tables"
    /\ result = "None"
    /\ obs = NewObs
    /\ \/ \E lens \in LenVectors, table_bits \in TableBitsChoices :
              build = [phase |-> "lens", lens |-> lens, table_bits |-> table_bits]
       \/ \E code \in SizedCodes :
              build = [phase |-> "code", kind |-> code.kind, lens |-> code.lens]

driver_vars == <<in_stream, out_stream, bs, tmp_data, tables, length, pc, result, obs>>

BuildTable ==
    /\ build.phase = "lens"
    /\ LET b == BuildDecodeTable(build.lens, NumSyms, PRECODE_DECODE_RESULTS,
                                 build.table_bits, MaxCodewordLen)
       IN  build' = [phase |-> "built", lens |-> build.lens,
                     table_bits |-> build.table_bits,
                     ok |-> b.ok, wild |-> b.wild, top |-> b.top, table |-> b.table]
    /\ UNCHANGED driver_vars

LookupTable ==
    /\ build.phase = "built"
    /\ build.ok
    /\ \E pattern \in BitPatterns :
           LET l == Lookup(build.table, build.table_bits, pattern)
           IN  build' = [phase |-> "looked", lens |-> build.lens,
                         table_bits |-> build.table_bits,
                         ok |-> build.ok, wild |-> build.wild, top |-> build.top,
                         table |-> build.table,
                         pattern |-> pattern, entry |-> l.entry,
                         accesses |-> l.accesses, removed |-> l.removed]
    /\ UNCHANGED driver_vars

\* build_precode_decode_table, build_litlen_decode_table and
\* build_offset_decode_table on a code of the real size
BuildSizedTable ==
    /\ build.phase = "code"
    /\ LET b == IF build.kind = "precode" THEN build_precode_decode_table(build.lens)
                ELSE IF build.kind = "litlen"
                THEN build_litlen_decode_table(build.lens, DEFLATE_NUM_LITLEN_SYMS)
                ELSE build_offset_decode_table(build.lens, 0, DEFLATE_NUM_OFFSET_SYMS)
       IN  build' = [phase |-> "sized", kind |-> build.kind, lens |-> build.lens,
                     table_bits |-> IF build.kind = "precode" THEN PRECODE_TABLEBITS
                                    ELSE IF build.kind = "litlen" THEN LITLEN_TABLEBITS
                                    ELSE OFFSET_TABLEBITS,
                     ok |-> b.ok, wild |-> b.wild, top |-> b.top, table |-> b.table]
    /\ UNCHANGED driver_vars

NextTables == BuildTable \/ LookupTable \/ BuildSizedTable

SpecTables == InitTables /\ [][NextTables]_vars

(***************************************************************************)
(* The bit reader on its own: the input stream is opened as the driver     *)
(* opens it, a BitStream is made over it, and ensure_bits::<true>(n) and   *)
(* remove_bits(n) are called in every order that never removes more bits   *)
(* than bitsleft or than the input has.  build counts the bits removed and *)
(* notes the last call, the byte of the cells never written and the      *)
(* position of the last word load of a decode step.                       *)
(***************************************************************************)
\* the input of test_bitstream
TestBytes == <<18, 52, 86, 120, 1, 35, 69, 103, 137>>

\* the length of an input longer than the buffer
LongFileLen == 20

\* an input that does not fit the small buffer
LongBytes == [i \in 1..LongFileLen |-> (37 * i + 11) % 256] \o <<>>

BitFiles == {TestBytes, LongBytes}

\* the n of ensure_bits(n) and of the bits(n) that follows
EnsureSizes == {12, 16}

\* the n of remove_bits(n)
RemoveSizes == {7, 9}

\* a buf_size below the window the input keeps behind position
BufSizeTiny == 8

InitBitsWith(buf_sizes) ==
    /\ \E file \in BitFiles, max_read \in MaxReads, buf_size \in buf_sizes :
           in_stream = NewInput(file, max_read, buf_size)
    /\ \E g \in GarbageBytes :
           build = [phase |-> "new", g |-> g, removed |-> 0, last |-> "new", n |-> 0,
                    refilled |-> FALSE, load |-> 0]
    /\ out_stream = NewOutput(BufSizeSmall)
    /\ bs = NewBitStream
    /\ tmp_data = NewTempData
    /\ tables = LibdeflateAllocDecodeTables
    /\ length = 0
    /\ pc = "bits"
    /\ result = "None"
    /\ obs = NewObs

InitBits == InitBitsWith({BufSizeSmall})

bits_idle == <<out_stream, tmp_data, tables, length, pc, result, obs>>

\* the environments of a call of the bit reader: the cells that were never
\* written hold the same byte throughout a run
BitEnvs ==
    {e \in Environments : e.sink_ok /\ e.g = build.g /\ (in_stream.wrapped => e.wrap)}

\* the loop condition of decompress_file_buffered, then BitStream::new
OpenBitStream ==
    /\ build.phase = "new"
    /\ \E e \in BitEnvs :
           LET opened(v) ==
                   /\ in_stream' = v.in
                   /\ bs' = NewBitStream
                   /\ build' = [build EXCEPT !.phase = "open"]
           IN  opened(HasValidBytesSlow(EnsureOverreadLength(in_stream, e), e))
    /\ UNCHANGED bits_idle

\* ensure_bits::<true>(n)
CallEnsureBits ==
    /\ build.phase = "open"
    /\ in_stream.trap = "none"
    /\ \E n \in EnsureSizes, e \in BitEnvs :
           LET ensured(P1) ==
                   /\ bs' = P1.bs
                   /\ in_stream' = P1.in
                   /\ build' = [build EXCEPT !.last = "ensure", !.n = n,
                                             !.refilled = ~HaveBits(bs, n)]
           IN  ensured(EnsureBits([bs |-> bs, in |-> in_stream], TRUE, n, e))
    /\ UNCHANGED bits_idle

\* remove_bits(n), of bits that are there
CallRemoveBits ==
    /\ build.phase = "open"
    /\ in_stream.trap = "none"
    /\ \E n \in RemoveSizes, e \in BitEnvs :
           /\ n <= bs.bitsleft
           /\ build.removed + n <= 8 * Len(in_stream.func.file)
           /\ LET removed(P1) ==
                      /\ bs' = P1.bs
                      /\ in_stream' = P1.in
                      /\ build' = [build EXCEPT !.last = "remove", !.n = n,
                                                !.removed = @ + n, !.refilled = FALSE]
              IN  removed(RemoveBits([bs |-> bs, in |-> in_stream], n, e))
    /\ UNCHANGED bits_idle

\* the number of bits the decode loop may take beyond the end of the input
OverrunBits == 16

\* one turn of 'main_loop with a call of decode_block_instruction that takes
\* its slow path: ensure_overread_length and the guard has_readable_overread,
\* then force_ensure_bits, the bits of a litlen symbol removed,
\* force_ensure_bits again and the bits of an offset removed
CallDecodeFills ==
    /\ build.phase = "open"
    /\ in_stream.trap = "none"
    /\ \E n1 \in RemoveSizes, n2 \in RemoveSizes, e \in BitEnvs :
           /\ build.removed + n1 + n2 <= 8 * Len(in_stream.func.file) + OverrunBits
           /\ LET decoded(at, P1) ==
                      /\ bs' = P1.bs
                      /\ in_stream' = P1.in
                      /\ build' = [build EXCEPT !.last = "decode", !.n = n2,
                                                !.removed = @ + n1 + n2,
                                                !.refilled = TRUE, !.load = at]
                  \* P2 is the reader before the second fill
                  second(P2) ==
                      decoded(P2.in.position, RemoveBits(FillBitsWordwise(P2, e), n2, e))
                  guarded(I1) ==
                      /\ HasReadableOverread(I1)
                      /\ second(RemoveBits(FillBitsWordwise([bs |-> bs, in |-> I1], e),
                                           n1, e))
              IN  guarded(EnsureOverreadLength(in_stream, e))
    /\ UNCHANGED bits_idle

NextBits == OpenBitStream \/ CallEnsureBits \/ CallRemoveBits

SpecBits == InitBits /\ [][NextBits]_vars

\* the bit reader as the decode loop drives it
NextFills == OpenBitStream \/ CallDecodeFills

InitFills == InitBitsWith({BufSizeTiny, BufSizeSmall})

SpecFills == InitFills /\ [][NextFills]_vars

(***************************************************************************)
(* The main loop of deflate_decompress_template as the output sees it:     *)
(* while has_writable_length(2 * DEFLATE_MAX_MATCH_LEN) holds a call of    *)
(* decode_block_instruction executes last_state and, on its fast path, the *)
(* entry it has just decoded; otherwise flush_ensure_length is called.     *)
(* The entries are those a table can hold.  build keeps the output as it   *)
(* was before the last entry was executed, and that entry.                 *)
(***************************************************************************)
\* the buf_size of the output
BufSizeEntry == 516

\* the most calls of decode_block_instruction in a run
MaxDecodeSteps == 1

DecodeEntryState(literals, literals_count, len_value, offset) ==
    [literals |-> literals, literals_count |-> literals_count,
     len_value |-> len_value, offset |-> offset]

\* literals alone
LiteralStates == {DecodeEntryState(<<98, 99>>, 2, 0, 0)}

\* matches, some with literals before them: an offset that counts back into
\* the literals, offsets below and at the word size, the longest match, the
\* largest offset of the format and the largest the offset table yields
MatchStates ==
    {DecodeEntryState(<<101, 102>>, 2, 12, 1),
     DecodeEntryState(<<100, 0>>, 1, 9, 2),
     DecodeEntryState(<<0, 0>>, 0, 17, 8),
     DecodeEntryState(<<103, 104>>, 2, DEFLATE_MAX_MATCH_LEN, 9),
     DecodeEntryState(<<0, 0>>, 0, 3, OUT_MAX_LOOK_BACK),
     DecodeEntryState(<<0, 0>>, 0, 3, OffsetBases[32] + 2^OffsetExtraBits[32] - 1)}

EntryStates == LiteralStates \cup MatchStates

InitEntry ==
    /\ in_stream = NewInput(<<>>, ReadFull, BufSizeSmall)
    /\ out_stream = NewOutput(BufSizeEntry)
    /\ bs = NewBitStream
    /\ tmp_data = NewTempData
    /\ tables = LibdeflateAllocDecodeTables
    /\ length = 0
    /\ pc = "entry"
    /\ result = "None"
    /\ obs = NewObs
    /\ \E g \in GarbageBytes :
           build = [phase |-> "new", g |-> g, steps |-> 0,
                    before |-> NewOutput(BufSizeEntry),
                    last_state |-> DecodeEntryState(<<0, 0>>, 0, 0, 0)]

entry_idle == <<in_stream, bs, tmp_data, tables, length, pc, result, obs>>

EntryEnvs == {e \in Environments : e.sink_ok /\ e.wrap /\ e.g = build.g}

\* decode_block_instruction::<false>, the entries it executes
ExecuteEntries ==
    /\ pc = "entry"
    /\ out_stream.trap = "none"
    /\ build.steps < MaxDecodeSteps
    /\ HasWritableLength(out_stream, 2 * DEFLATE_MAX_MATCH_LEN)
    /\ \E first \in EntryStates, second \in EntryStates, fast \in BOOLEAN, e \in EntryEnvs :
           LET executed(O1) ==
                   IF fast /\ O1.trap = "none"
                   THEN /\ out_stream' = ProcessEntry(O1, second, e)
                        /\ build' = [build EXCEPT !.phase = "executed", !.steps = @ + 1,
                                                  !.before = O1, !.last_state = second]
                   ELSE /\ out_stream' = O1
                        /\ build' = [build EXCEPT !.phase = "executed", !.steps = @ + 1,
                                                  !.before = out_stream,
                                                  !.last_state = first]
           IN  executed(ProcessEntry(out_stream, first, e))
    /\ UNCHANGED entry_idle

\* out_stream.flush_ensure_length(DEFLATE_MAX_MATCH_LEN * 2)
FlushEntries ==
    /\ pc = "entry"
    /\ out_stream.trap = "none"
    /\ ~HasWritableLength(out_stream, 2 * DEFLATE_MAX_MATCH_LEN)
    /\ \E e \in EntryEnvs :
           LET flushed(f) ==
                   /\ out_stream' = f.out
                   /\ build' = [build EXCEPT !.phase = "flushed"]
           IN  flushed(FlushEnsureLength(out_stream, 2 * DEFLATE_MAX_MATCH_LEN, e))
    /\ UNCHANGED entry_idle

NextEntry == ExecuteEntries \/ FlushEntries

SpecEntry == InitEntry /\ [][NextEntry]_vars

(***************************************************************************)
(* Two streams decoded one after the other with one table set, block by    *)
(* block.  tables is the table set both streams use; build.fresh is the    *)
(* table set of a decoder allocated at the start of the current stream and *)
(* given the same blocks.  A Huffman block's body is decoded with the      *)
(* codes the tables hold after its header, so build.shared_out and         *)
(* build.fresh_out list, for each block of the current stream, the codes   *)
(* it was decoded with; a stream ends at its final block or at an error.   *)
(***************************************************************************)
\* the most blocks of a stream
MaxRestartBlocks == 3

\* the code lengths of the dynamic blocks
DynamicLens == {<<1, 1>>, <<1, 2, 2>>}

BadHeader == [kind |-> "BadData", lens |-> <<>>]

StoredBlock == [kind |-> "stored", lens |-> <<>>]

InitRestart ==
    /\ in_stream = NewInput(<<>>, ReadFull, BufSizeSmall)
    /\ out_stream = NewOutput(BufSizeSmall)
    /\ bs = NewBitStream
    /\ tmp_data = NewTempData
    /\ tables = LibdeflateAllocDecodeTables
    /\ length = 0
    /\ pc = "restart"
    /\ result = "None"
    /\ obs = NewObs
    /\ build = [stream |-> 1, blocks |-> 0, fresh |-> LibdeflateAllocDecodeTables,
                shared_out |-> <<>>, fresh_out |-> <<>>,
                shared_result |-> "None", fresh_result |-> "None",
                carried |-> FALSE]

restart_idle == <<in_stream, out_stream, bs, tmp_data, length, pc, obs>>

\* the block has been read by both decoders; ok is FALSE for a header refused
BlockDone(T, F, ok, final, huffman) ==
    /\ tables' = T
    /\ result' = IF ~ok THEN "BadData" ELSE IF final THEN "Ok" ELSE "None"
    /\ build' = [build EXCEPT
           !.blocks = @ + 1,
           !.fresh = F,
           !.shared_out = Append(@, IF ~ok THEN BadHeader
                                    ELSE IF huffman THEN T.codes ELSE StoredBlock),
           !.fresh_out = Append(@, IF ~ok THEN BadHeader
                                   ELSE IF huffman THEN F.codes ELSE StoredBlock),
           !.shared_result = IF ~ok THEN "BadData" ELSE IF final THEN "Ok" ELSE "None",
           !.fresh_result = IF ~ok THEN "BadData" ELSE IF final THEN "Ok" ELSE "None"]

InStream ==
    /\ pc = "restart"
    /\ result = "None"
    /\ build.blocks < MaxRestartBlocks

\* decode_huffman_block, block_type == DEFLATE_BLOCKTYPE_DYNAMIC_HUFFMAN
DynamicBlock ==
    /\ InStream
    /\ \E lens \in DynamicLens, ok \in BOOLEAN, final \in BOOLEAN :
           BlockDone(DynamicTables(tables, ok, lens), DynamicTables(build.fresh, ok, lens),
                     ok, final, TRUE)
    /\ UNCHANGED restart_idle

\* decode_huffman_block, block_type == DEFLATE_BLOCKTYPE_STATIC_HUFFMAN
StaticBlock ==
    /\ InStream
    /\ \E final \in BOOLEAN :
           BlockDone(StaticTables(tables), StaticTables(build.fresh), TRUE, final, TRUE)
    /\ UNCHANGED restart_idle

\* decode_huffman_block, block_type == DEFLATE_BLOCKTYPE_UNCOMPRESSED
UncompressedBlock ==
    /\ InStream
    /\ \E ok \in BOOLEAN, final \in BOOLEAN :
           BlockDone(tables, build.fresh, ok, final, FALSE)
    /\ UNCHANGED restart_idle

\* the next call of deflate_decompress_template with the same tables: a new
\* DecompressTempData is made, the tables are taken as they are
NextStream ==
    /\ pc = "restart"
    /\ build.stream = 1
    /\ result # "None"
    /\ result' = "None"
    /\ build' = [build EXCEPT !.stream = 2, !.blocks = 0,
                              !.fresh = LibdeflateAllocDecodeTables,
                              !.shared_out = <<>>, !.fresh_out = <<>>,
                              !.shared_result = "None", !.fresh_result = "None",
                              !.carried = tables.static_codes_loaded]
    /\ UNCHANGED <<tables, restart_idle>>

NextRestart == DynamicBlock \/ StaticBlock \/ UncompressedBlock \/ NextStream

SpecRestart == InitRestart /\ [][NextRestart]_vars

(***************************************************************************)
(* libdeflate_deflate_decompress on raw DEFLATE streams of stored blocks:  *)
(* a stored block of n bytes that is not the final one, then an empty      *)
(* final stored block; and the same streams cut inside the first block's   *)
(* data.  The input is opened as decompress_file_buffered opens it.        *)
(***************************************************************************)
\* the LEN of the first block: none, one byte, around the 16 bytes one copy
\* step moves, more than the small buffer holds
StoredLens == {0, 1, 15, 16, 17, 33, 40}

StoredData(n) == [i \in 1..n |-> 64 + i] \o <<>>

StoredFile(n) == Stored(0, StoredData(n)) \o Stored(1, <<>>)

\* the streams that end inside the data of the first block
CutStoredFiles ==
    {SubSeq(StoredFile(17), 1, 5 + k) : k \in {0, 16}}
    \cup {SubSeq(StoredFile(40), 1, 5 + k) : k \in {1, 33}}

StoredFiles == {StoredFile(n) : n \in StoredLens} \cup CutStoredFiles

InitStored ==
    /\ \E file \in StoredFiles, max_read \in MaxReads, buf_size \in BufSizes :
           /\ in_stream = NewInput(file, max_read, buf_size)
           /\ out_stream = NewOutput(buf_size)
    /\ bs = NewBitStream
    /\ tmp_data = NewTempData
    /\ tables = LibdeflateAllocDecodeTables
    /\ length = 0
    /\ pc = "stored"
    /\ result = "None"
    /\ obs = NewObs
    /\ build = NoBuild

\* the loop condition of decompress_file_buffered, then the new
\* DecompressTempData of deflate_decompress_template
OpenStored ==
    /\ pc = "stored"
    /\ \E e \in Envs :
           LET opened(v) ==
                   Apply([Cur EXCEPT !.in = v.in, !.pc = IF v.ok THEN "block" ELSE "done",
                                     !.result = IF v.ok THEN "None" ELSE "Ok"])
           IN  opened(HasValidBytesSlow(EnsureOverreadLength(in_stream, e), e))

NextStored == OpenStored \/ DecodeHuffmanBlock \/ ReadExactInto

SpecStored == InitStored /\ [][NextStored]_vars

(***************************************************************************)
(* The bit reader at the start of a stored block: after any calls of       *)
(* ensure_bits and remove_bits, align_input is called.                     *)
(***************************************************************************)
\* align_input
CallAlignInput ==
    /\ build.phase = "open"
    /\ in_stream.trap = "none"
    /\ \E e \in BitEnvs :
           LET aligned(P1) ==
                   /\ bs' = P1.bs
                   /\ in_stream' = P1.in
                   /\ build' = [build EXCEPT !.phase = "aligned", !.last = "align",
                                             !.n = bs.bitsleft,
                                             !.load = bs.inbits_offset]
           IN  aligned(AlignInput([bs |-> bs, in |-> in_stream], e))
    /\ UNCHANGED bits_idle

NextAlign == OpenBitStream \/ CallEnsureBits \/ CallRemoveBits \/ CallAlignInput

SpecAlign == InitBits /\ [][NextAlign]_vars

(***************************************************************************)
(* flush_ensure_length as the decoder calls it: with CHUNK_SIZE by         *)
(* read_exact_into and with 2 * DEFLATE_MAX_MATCH_LEN by the main loop of  *)
(* deflate_decompress_template, on outputs of the buffer sizes a caller of *)
(* decompress_file_buffered may pass.  Between the calls the decoder       *)
(* writes where has_writable_length allows it.  build keeps the length and *)
(* the result of the last call.                                            *)
(***************************************************************************)
\* the buf_size of the output
FlushBufSizes == {BufSizeSmall, BufSizeLarge, BufSizeEntry}

\* the length of flush_ensure_length(length)
FlushLengths == {CHUNK_SIZE, 2 * DEFLATE_MAX_MATCH_LEN}

\* the most calls of flush_ensure_length in a run
MaxFlushCalls == 3

InitFlush ==
    /\ in_stream = NewInput(<<>>, ReadFull, BufSizeSmall)
    /\ \E buf_size \in FlushBufSizes : out_stream = NewOutput(buf_size)
    /\ bs = NewBitStream
    /\ tmp_data = NewTempData
    /\ tables = LibdeflateAllocDecodeTables
    /\ length = 0
    /\ pc = "flush"
    /\ result = "None"
    /\ obs = NewObs
    /\ \E g \in GarbageBytes :
           build = [phase |-> "new", g |-> g, calls |-> 0, n |-> 0, ok |-> FALSE,
                    needed |-> FALSE]

flush_idle == <<in_stream, bs, tmp_data, tables, length, pc, result, obs>>

FlushEnvs == {e \in Environments : e.wrap /\ e.g = build.g}

\* the decoder writes: the entries of one decode step
WriteEntries ==
    /\ pc = "flush"
    /\ out_stream.trap = "none"
    /\ build.calls < MaxFlushCalls
    /\ HasWritableLength(out_stream, 2 * DEFLATE_MAX_MATCH_LEN)
    /\ \E state \in EntryStates, e \in FlushEnvs :
           /\ state.offset <= 9
           /\ out_stream' = ProcessEntry(out_stream, state, e)
           /\ build' = [build EXCEPT !.phase = "written"]
    /\ UNCHANGED flush_idle

\* out_stream.flush_ensure_length(length)
CallFlushEnsureLength ==
    /\ pc = "flush"
    /\ out_stream.trap = "none"
    /\ build.calls < MaxFlushCalls
    /\ \E n \in FlushLengths, e \in FlushEnvs :
           LET flushed(f) ==
                   /\ out_stream' = f.out
                   /\ build' = [build EXCEPT
                          !.phase = "flushed", !.calls = @ + 1, !.n = n, !.ok = f.ok,
                          !.needed = ~HasWritableLength(out_stream, n)]
           IN  flushed(FlushEnsureLength(out_stream, n, e))
    /\ UNCHANGED flush_idle

NextFlush == WriteEntries \/ CallFlushEnsureLength

SpecFlush == InitFlush /\ [][NextFlush]_vars

(***************************************************************************)
(* The input window at the DeflateInput interface: read, move_stream_pos,  *)
(* has_valid_bytes_slow and ensure_overread_length are called in every     *)
(* order on an input longer than the buffer.  The last two change the      *)
(* window by refill_buffer alone: build keeps the window as it was before  *)
(* the call and whether the call refilled.                                 *)
(***************************************************************************)
\* an input longer than the small buffer
WindowBytes == LongBytes \o TestBytes \o LongBytes

\* the len of read(&mut [u8; len])
WindowReads == {1, 2, 4}

\* the amount of move_stream_pos(amount)
WindowMoves == {4, 6}

\* the calls made on one input
MaxWindowCalls == 6

InitWindow ==
    /\ \E max_read \in MaxReads : in_stream = NewInput(WindowBytes, max_read, BufSizeSmall)
    /\ \E g \in GarbageBytes :
           build = [g |-> g, last |-> "new", refilled |-> FALSE, n |-> 0,
                    before |-> NewInput(WindowBytes, ReadFull, BufSizeSmall)]
    /\ out_stream = NewOutput(BufSizeSmall)
    /\ bs = NewBitStream
    /\ tmp_data = NewTempData
    /\ tables = LibdeflateAllocDecodeTables
    /\ length = 0
    /\ pc = "window"
    /\ result = "None"
    /\ obs = NewObs

window_idle == <<out_stream, bs, tmp_data, tables, length, pc, result, obs>>

\* has_valid_bytes_slow
CallHasValidBytesSlow ==
    /\ pc = "window" /\ in_stream.trap = "none" /\ build.n < MaxWindowCalls
    /\ \E e \in BitEnvs :
           LET called(v) ==
                   /\ in_stream' = v.in
                   /\ build' = [build EXCEPT
                          !.last = "has_valid_bytes_slow",
                          !.refilled = in_stream.position >= in_stream.end_position,
                          !.before = in_stream, !.n = @ + 1]
           IN  called(HasValidBytesSlow(in_stream, e))
    /\ UNCHANGED window_idle

\* ensure_overread_length
CallEnsureOverreadLength ==
    /\ pc = "window" /\ in_stream.trap = "none" /\ build.n < MaxWindowCalls
    /\ \E e \in BitEnvs :
           /\ in_stream' = EnsureOverreadLength(in_stream, e)
           /\ build' = [build EXCEPT
                  !.last = "ensure_overread_length",
                  !.refilled = in_stream.position > in_stream.overread_position_limit,
                  !.before = in_stream, !.n = @ + 1]
    /\ UNCHANGED window_idle

\* read::<true>
CallRead ==
    /\ pc = "window" /\ in_stream.trap = "none" /\ build.n < MaxWindowCalls
    /\ \E len \in WindowReads, e \in BitEnvs :
           LET called(v) ==
                   /\ in_stream' = v.in
                   /\ build' = [build EXCEPT !.last = "read", !.refilled = FALSE,
                                             !.before = in_stream, !.n = @ + 1]
           IN  called(Read(in_stream, len, e))
    /\ UNCHANGED window_idle

\* move_stream_pos::<true>
CallMoveStreamPos ==
    /\ pc = "window" /\ in_stream.trap = "none" /\ build.n < MaxWindowCalls
    /\ \E amount \in WindowMoves, e \in BitEnvs :
           /\ in_stream' = MoveStreamPos(in_stream, amount, e)
           /\ build' = [build EXCEPT !.last = "move_stream_pos", !.refilled = FALSE,
                                     !.before = in_stream, !.n = @ + 1]
    /\ UNCHANGED window_idle

NextWindow ==
    CallHasValidBytesSlow \/ CallEnsureOverreadLength \/ CallRead \/ CallMoveStreamPos

SpecWindow == InitWindow /\ [][NextWindow]_vars

(***************************************************************************)
(* FastDecodeEntry, kept as its fields: consumed_bits and low_bits are the *)
(* two nibbles of `bits` (low_bits holds the extra offset bits, or the     *)
(* extra length bits of an exceptional entry), len_value and               *)
(* literals_count the two parts of `len`, lit the two literal bytes.       *)
(***************************************************************************)
EXC_LEN_FULLSIZE == 1
EXC_LEN_EXTRABIT == 2
EXC_LEN_SUBTABLE == 3
EXC_BIGLEN32 == 32
EXC_BIGLEN == 16
EXC_SMALLOFFSET == 48
EXC_END_OF_BLOCK == 7
MAX_LITERALS == 2
FAST_TABLEBITS == 10

\* FastDecodeEntry::DEFAULT
FastDefault ==
    [consumed_bits |-> 0, low_bits |-> 0, flags |-> 0, len_value |-> 0,
     literals_count |-> 0, lit |-> <<0, 0>>, off |-> 0]

\* FastDecodeEntry::compute_copy_flags
ComputeCopyFlags(len, extra_bits) ==
    LET max_len == len + 2^extra_bits - 1
    IN  IF max_len <= 16 THEN 0 ELSE IF max_len <= 32 THEN EXC_BIGLEN32 ELSE EXC_BIGLEN

\* FastDecodeEntry::new_from_len_and_extra_bits
FastNewFromLenAndExtraBits(len, extra_bits) ==
    [FastDefault EXCEPT !.low_bits = extra_bits,
                        !.flags = EXC_LEN_EXTRABIT + ComputeCopyFlags(len, extra_bits),
                        !.len_value = len]

\* FastDecodeEntry::new_from_offset_and_extra_bits
FastNewFromOffsetAndExtraBits(offset, extra_bits) ==
    [FastDefault EXCEPT !.low_bits = extra_bits,
                        !.flags = IF offset < 8 THEN EXC_SMALLOFFSET ELSE 0,
                        !.off = offset]

\* FastDecodeEntry::new_from_literal
FastNewFromLiteral(lit) == [FastDefault EXCEPT !.literals_count = 1, !.lit = <<lit, 0>>]

\* FastDecodeEntry::new_end_of_block
FastNewEndOfBlock == [FastDefault EXCEPT !.flags = EXC_END_OF_BLOCK]

\* FastDecodeEntry::new_subtable_pointer: len holds subtable_bits
FastNewSubtablePointer(subtable_start, subtable_bits) ==
    [FastDefault EXCEPT !.flags = EXC_LEN_SUBTABLE,
                        !.len_value = subtable_bits \div 16,
                        !.literals_count = subtable_bits % 16,
                        !.off = subtable_start]

\* FastDecodeEntry::make_decode_table_entry
FastMakeDecodeTableEntry(entry, consumed_bits) ==
    [entry EXCEPT !.consumed_bits = @ + consumed_bits]

\* FastDecodeEntry::new_from_litlen_entry
FastNewFromLitlenEntry(entry, codeword) ==
    IF entry.flags = EXC_LEN_EXTRABIT /\ entry.consumed_bits + entry.low_bits <= FAST_TABLEBITS
    THEN LET extra_len == (codeword \div 2^entry.consumed_bits) % 2^entry.low_bits
             total_len == entry.len_value + extra_len
         IN  [FastDefault EXCEPT !.consumed_bits = entry.consumed_bits + entry.low_bits,
                                 !.flags = EXC_LEN_FULLSIZE + ComputeCopyFlags(total_len, 0),
                                 !.len_value = total_len]
    ELSE entry

\* FastDecodeEntry::maybe_add_litlen_entry: [entry, added]
MaybeAddLitlenEntry(self, entry, codeword) ==
    IF entry.literals_count > 0
    THEN IF self.literals_count >= MAX_LITERALS THEN [entry |-> self, added |-> FALSE]
         ELSE [entry |-> [self EXCEPT !.lit[self.literals_count + 1] = entry.lit[1],
                                      !.literals_count = @ + 1,
                                      !.consumed_bits = @ + entry.consumed_bits],
               added |-> TRUE]
    ELSE LET extra_len == (codeword \div 2^entry.consumed_bits) % 2^entry.low_bits
         IN  [entry |-> [self EXCEPT !.len_value = @ + entry.len_value + extra_len,
                                     !.consumed_bits = @ + entry.low_bits + entry.consumed_bits,
                                     !.flags = EXC_LEN_FULLSIZE],
              added |-> TRUE]

\* FastDecodeEntry::add_offset_entry
AddOffsetEntry(self, entry) ==
    [self EXCEPT !.consumed_bits = @ + entry.consumed_bits,
                 !.low_bits = @ + entry.low_bits,
                 !.off = entry.off,
                 !.flags = entry.flags]

\* FastDecodeEntry::get_subtable_length: the whole of len
FastSubtableLength(entry) == 16 * entry.len_value + entry.literals_count

(***************************************************************************)
(* decode_block_instruction.  D is what a call works on: the reader p, the *)
(* output out, last_state, and what is noted of the run: decoded and       *)
(* executed list the entries stored in last_state and those given to       *)
(* process_entry, over tells that a remove_bits(n) or pop_bits(n) was      *)
(* called with n > bitsleft, flags and path are the flag byte of the entry *)
(* that reached the exceptional branch and the arm that took it.  L holds  *)
(* what the table lookups of the call return.  The result is [d, more].    *)
(***************************************************************************)
\* the DecodeEntryState of a fast entry and an offset
FastState(entry, offset) ==
    DecodeEntryState(entry.lit, entry.literals_count, entry.len_value, offset)

DecodeBlockInstruction(D, first_entry, L, e) ==
    LET Rm(d, n) == [d EXCEPT !.p = RemoveBits(d.p, n, e),
                              !.over = @ \/ (d.p.bs.bitsleft >= 0 /\ n > d.p.bs.bitsleft)]
        Exec(d) == [d EXCEPT !.out = ProcessEntry(d.out, d.last_state, e),
                             !.executed = Append(@, d.last_state)]
        SetLast(d, st) == [d EXCEPT !.last_state = st, !.decoded = Append(@, st)]
        Fast(d, entry) ==
            Rm(SetLast(d, FastState(entry,
                                    entry.off + BitsWithOffset(d.p.bs, entry.consumed_bits,
                                                               entry.low_bits))),
               entry.low_bits + entry.consumed_bits)
        \* the offset entry, through the subtable if the main entry points to one
        OffsetEntry(d) == IF L.offset.main.subtable_pointer THEN L.offset.sub
                          ELSE L.offset.main
        OffsetRead(d) == IF L.offset.main.subtable_pointer THEN Rm(d, OFFSET_TABLEBITS) ELSE d
        \* the arm of EXC_LEN_FULLSIZE | EXC_LEN_EXTRABIT
        LengthArm(d, entry) ==
            LET extra(d1, extra_len) ==
                    LET d2 == OffsetRead(d1)
                        oe == OffsetEntry(d1)
                        st == DecodeEntryState(entry.lit, entry.literals_count,
                                               entry.len_value + extra_len,
                                               oe.result + BitsWithOffset(d2.p.bs, oe.length,
                                                                          oe.extra))
                    IN  [d |-> Rm(SetLast(d2, st), oe.length + oe.extra), more |-> TRUE]
                consumed(d1) ==
                    IF entry.flags = EXC_LEN_EXTRABIT
                    THEN extra(Rm(d1, entry.low_bits), Bits(d1.p.bs, entry.low_bits))
                    ELSE extra(d1, 0)
            IN  consumed(Rm([d EXCEPT !.path = "length", !.flags = entry.flags],
                            entry.consumed_bits))
        \* the litlen subtable: the entry at subtable_index + bits(subtable_length);
        \* an entry that is no subtable pointer sends the read anywhere
        SubtableArm(d, entry) ==
            LET sub == IF entry.flags = EXC_LEN_SUBTABLE THEN L.litlen_sub ELSE L.wild
                match(d3) ==
                    LET len == sub.result + Bits(d3.p.bs, sub.extra)
                        d4 == OffsetRead(Rm(d3, sub.extra))
                        oe == OffsetEntry(d3)
                        d5 == Rm(d4, oe.length)
                        offset == oe.result + Bits(d5.p.bs, oe.extra)
                    IN  [d |-> SetLast(Rm(d5, oe.extra), DecodeEntryState(<<0, 0>>, 0, len, offset)),
                         more |-> TRUE]
                looked(d1) ==
                    LET d2 == Rm(d1, sub.length)
                    IN  IF IsLiteral(sub)
                        THEN [d |-> [SetLast(d2, DecodeEntryState(<<sub.result - 32768, 0>>, 1, 0, 0))
                                        EXCEPT !.p = EnsureBits(@, FALSE,
                                                                DEFLATE_MAX_LITLEN_CODEWORD_LEN, e)],
                              more |-> TRUE]
                        ELSE IF sub.end_of_block THEN [d |-> d2, more |-> FALSE]
                        ELSE match([d2 EXCEPT !.p = FillBitsWordwise(@, e)])
                removed(d1) ==
                    IF FastSubtableLength(entry) >= 32 /\ ~e.wrap
                    THEN [d |-> [d1 EXCEPT !.p.in = Trap(@, "bits:shift")], more |-> FALSE]
                    ELSE looked(d1)
            IN  removed(Rm([d EXCEPT !.path = "subtable", !.flags = entry.flags,
                                     !.wild = @ \/ entry.flags # EXC_LEN_SUBTABLE],
                           LITLEN_TABLEBITS))
        Exceptional(d, entry) ==
            IF entry.flags \in {EXC_LEN_FULLSIZE, EXC_LEN_EXTRABIT} THEN LengthArm(d, entry)
            ELSE IF entry.flags = EXC_END_OF_BLOCK
            THEN [d |-> Rm([d EXCEPT !.path = "end_of_block", !.flags = entry.flags],
                           entry.consumed_bits),
                  more |-> FALSE]
            ELSE SubtableArm(d, entry)
        second(d2) ==
            IF first_entry THEN [d |-> d2, more |-> TRUE]
            ELSE LET executed(d3) ==
                         IF L.fast2.flags = 0 THEN [d |-> Fast(d3, L.fast2), more |-> TRUE]
                         ELSE Exceptional(d3, L.fast2)
                 IN  executed(Exec(d2))
        looked_up(d1) ==
            IF L.fast1.flags = 0 THEN second(Fast(d1, L.fast1))
            ELSE Exceptional(d1, L.fast1)
        filled(d0) == looked_up(IF first_entry THEN d0 ELSE Exec(d0))
    IN  filled([D EXCEPT !.p = FillBitsWordwise(@, e), !.path = "none", !.flags = 0])

(***************************************************************************)
(* The main loop of deflate_decompress_template on one Huffman block, call *)
(* by call of decode_block_instruction.  What a table lookup returns is    *)
(* chosen among entries the tables can hold: fast entries put together     *)
(* with the functions of FastDecodeEntry the way the fast-table composer   *)
(* uses them, offset entries with and without a subtable, and the entries  *)
(* of a litlen subtable.                                                   *)
(***************************************************************************)
\* the most calls of decode_block_instruction in a run
MaxDecodeCalls == 2

\* the buf_size of the output: below and at 2 * DEFLATE_MAX_MATCH_LEN
DecodeBufSizes == {BufSizeSmall, BufSizeEntry}

\* a block header with BTYPE = 1, and the bits of the block
DecodeBytes == <<DEFLATE_BLOCKTYPE_STATIC_HUFFMAN * 2>> \o LongBytes \o TestBytes

\* litlen entries as the composer sees them, with the codeword length
FastLiteral(lit, len) == FastMakeDecodeTableEntry(FastNewFromLiteral(lit), len)

FastLength(base, extra_bits, len) ==
    FastMakeDecodeTableEntry(FastNewFromLenAndExtraBits(base, extra_bits), len)

FastOffset(base, extra_bits, len) ==
    FastMakeDecodeTableEntry(FastNewFromOffsetAndExtraBits(base, extra_bits), len)

\* what the composer leaves in the fast table for a window of FAST_TABLEBITS
\* bits: two literals; a literal, a length and an offset of 9..12; a length
\* and the offset 1; a length with its extra bit taken in, the offset left
\* out; lengths whose extra bits do not fit or are not taken in; the end of
\* the block; a pointer to a litlen subtable of 2^5 entries
FastTableEntries ==
    {MaybeAddLitlenEntry(MaybeAddLitlenEntry(FastDefault, FastLiteral(98, 5), 0).entry,
                         FastLiteral(99, 5), 0).entry,
     AddOffsetEntry(
         MaybeAddLitlenEntry(MaybeAddLitlenEntry(FastDefault, FastLiteral(100, 3), 0).entry,
                             FastLength(3, 0, 2), 0).entry,
         FastOffset(9, 2, 3)),
     AddOffsetEntry(MaybeAddLitlenEntry(FastDefault, FastLength(3, 0, 2), 0).entry,
                    FastOffset(1, 0, 2)),
     FastNewFromLitlenEntry(FastLength(11, 1, 9), 512),
     FastNewFromLitlenEntry(FastLength(13, 1, 10), 0),
     FastNewFromLitlenEntry(FastLength(17, 1, 7), 0),
     FastNewFromLitlenEntry(FastLength(227, 5, 10), 0),
     FastMakeDecodeTableEntry(FastNewEndOfBlock, 7),
     FastNewSubtablePointer(0, 5)}

\* what the offset table returns: main, and sub where main is a pointer
OffsetLookups ==
    {[main |-> MakeDecodeTableEntry(OFFSET_DECODE_RESULTS[1], 1),
      sub |-> MakeDecodeTableEntry(OFFSET_DECODE_RESULTS[1], 1)],
     [main |-> MakeDecodeTableEntry(OFFSET_DECODE_RESULTS[7], OFFSET_TABLEBITS),
      sub |-> MakeDecodeTableEntry(OFFSET_DECODE_RESULTS[7], OFFSET_TABLEBITS)],
     [main |-> NewSubtablePointer(0, DEFLATE_MAX_OFFSET_CODEWORD_LEN - OFFSET_TABLEBITS,
                                  OFFSET_TABLEBITS),
      sub |-> MakeDecodeTableEntry(OFFSET_DECODE_RESULTS[30],
                                   DEFLATE_MAX_OFFSET_CODEWORD_LEN - OFFSET_TABLEBITS)]}

\* the entries of a litlen subtable of codewords of LITLEN_TABLEBITS + 5 bits
LitlenSubEntries ==
    {MakeDecodeTableEntry(NewLiteral(105), 5),
     MakeDecodeTableEntry(EndOfBlock, 5),
     MakeDecodeTableEntry(NewLength(227, 5), 5)}

\* what a read through an entry that is no subtable pointer can return: an
\* entry of the table or any other word
WildReads == LitlenSubEntries \cup {[NewLiteral(0) EXCEPT !.length = 200]}

InitDecode ==
    /\ in_stream = NewInput(DecodeBytes, ReadFull, BufSizeSmall)
    /\ \E buf_size \in DecodeBufSizes : out_stream = NewOutput(buf_size)
    /\ bs = NewBitStream
    /\ tmp_data = NewTempData
    /\ tables = LibdeflateAllocDecodeTables
    /\ length = 0
    /\ pc = "decode"
    /\ result = "None"
    /\ obs = NewObs
    /\ \E g \in GarbageBytes :
           build = [phase |-> "open", g |-> g, calls |-> 0, flushed |-> FALSE,
                    last_state |-> DecodeEntryState(<<0, 0>>, 0, 0, 0),
                    decoded |-> <<>>, executed |-> <<>>, over |-> FALSE, wild |-> FALSE,
                    path |-> "none", flags |-> 0]

decode_idle == <<tmp_data, tables, length, pc, result, obs>>

DecodeEnvs == {e \in Environments : e.sink_ok /\ e.g = build.g}

\* decode_huffman_header_flags and the static branch of decode_huffman_block
\* with the tables loaded
OpenDecode ==
    /\ build.phase = "open"
    /\ \E e \in DecodeEnvs :
           LET header(bfinal, btype) ==
                   /\ bs' = btype.p.bs
                   /\ in_stream' = btype.p.in
                   /\ tmp_data' = [is_final_block |-> bfinal.val # 0,
                                   block_type |-> btype.val]
               flags(bfinal) == header(bfinal, PopBits(bfinal.p, 2, e))
           IN  flags(PopBits(EnsureBits([bs |-> bs, in |-> in_stream], TRUE,
                                        1 + 2 + 5 + 5 + 4, e), 1, e))
    /\ build' = [build EXCEPT !.phase = "first"]
    /\ UNCHANGED <<out_stream, tables, length, pc, result, obs>>

\* the lookups a call can make, given what it finds first
DecodeLookups(first_entry) ==
    {L \in [fast1 : FastTableEntries, fast2 : FastTableEntries, offset : OffsetLookups,
            litlen_sub : LitlenSubEntries, wild : WildReads] :
        LET cls == IF L.fast1.flags # 0 THEN L.fast1 ELSE L.fast2
            none == CHOOSE x \in FastTableEntries : TRUE
            length_arm == cls.flags \in {EXC_LEN_FULLSIZE, EXC_LEN_EXTRABIT}
            sub_read == cls.flags # 0 /\ ~length_arm /\ cls.flags # EXC_END_OF_BLOCK
            pointer == cls.flags = EXC_LEN_SUBTABLE
        IN  /\ (L.fast1.flags # 0 \/ first_entry) => L.fast2 = none
            /\ (~length_arm /\ ~sub_read) => L.offset = CHOOSE x \in OffsetLookups : TRUE
            /\ ~(sub_read /\ pointer) => L.litlen_sub = CHOOSE x \in LitlenSubEntries : TRUE
            /\ ~(sub_read /\ ~pointer) => L.wild = CHOOSE x \in WildReads : TRUE}

\* the state a call of decode_block_instruction starts from
DecodeState ==
    [p |-> [bs |-> bs, in |-> in_stream], out |-> out_stream,
     last_state |-> build.last_state, decoded |-> build.decoded,
     executed |-> build.executed, over |-> build.over, wild |-> build.wild,
     path |-> build.path, flags |-> build.flags]

\* the state after a call that left r = [d, more]; ensure_overread_length is the
\* first statement of 'main_loop
Decoded(r, e) ==
    /\ bs' = r.d.p.bs
    /\ in_stream' = IF r.more THEN EnsureOverreadLength(r.d.p.in, e) ELSE r.d.p.in
    /\ out_stream' = r.d.out
    /\ build' = [build EXCEPT !.phase = IF r.d.p.in.trap # "none" \/ r.d.out.trap # "none"
                                        THEN "panic"
                                        ELSE IF r.more THEN "main" ELSE "eob",
                              !.calls = @ + 1, !.flushed = FALSE,
                              !.last_state = r.d.last_state, !.decoded = r.d.decoded,
                              !.executed = r.d.executed, !.over = r.d.over,
                              !.wild = r.d.wild, !.path = r.d.path, !.flags = r.d.flags]

\* ensure_overread_length and decode_block_instruction::<true>
DecodeFirst ==
    /\ build.phase = "first"
    /\ \E e \in DecodeEnvs, L \in DecodeLookups(TRUE) :
           Decoded(DecodeBlockInstruction(
                       [DecodeState EXCEPT !.p.in = EnsureOverreadLength(@, e)], TRUE, L, e), e)
    /\ UNCHANGED decode_idle

\* decode_block_instruction::<false> under the guard of the while loop
DecodeNext ==
    /\ build.phase = "main"
    /\ build.calls < MaxDecodeCalls
    /\ HasReadableOverread(in_stream)
    /\ HasWritableLength(out_stream, 2 * DEFLATE_MAX_MATCH_LEN)
    /\ \E e \in DecodeEnvs, L \in DecodeLookups(FALSE) :
           Decoded(DecodeBlockInstruction(DecodeState, FALSE, L, e), e)
    /\ UNCHANGED decode_idle

\* the guard fails: flush_ensure_length, has_valid_bytes_slow, and
\* ensure_overread_length of the next turn of 'main_loop
FlushTurn ==
    /\ build.phase = "main"
    /\ ~(HasReadableOverread(in_stream)
         /\ HasWritableLength(out_stream, 2 * DEFLATE_MAX_MATCH_LEN))
    /\ \E e \in DecodeEnvs :
           LET valid(f, v) ==
                   /\ out_stream' = f.out
                   /\ in_stream' = IF v.ok THEN EnsureOverreadLength(v.in, e) ELSE v.in
                   /\ build' = [build EXCEPT !.phase = IF v.ok THEN "main" ELSE "ended",
                                             !.flushed = TRUE]
               flushed(f) == valid(f, HasValidBytesSlow(in_stream, e))
           IN  flushed(FlushEnsureLength(out_stream, 2 * DEFLATE_MAX_MATCH_LEN, e))
    /\ UNCHANGED <<bs, tmp_data, tables, length, pc, result, obs>>

NextDecode == OpenDecode \/ DecodeFirst \/ DecodeNext \/ FlushTurn

SpecDecode == InitDecode /\ [][NextDecode]_vars

(***************************************************************************)
(* What a run is judged by                                                 *)
(***************************************************************************)
File == in_stream.func.file

MaxRead == in_stream.func.max_read

\* the bytes the sink accepted, in order
Delivered == out_stream.func.data

\* the number of sink calls that returned Err
Refused == out_stream.func.refused

\* the bytes the sink accepted for the current member
MemberDelivered == SubSeq(Delivered, obs.sink_base + 1, Len(Delivered))

\* the n bytes of the file from offset at
FileBytes(at, n) == SubSeq(File, at + 1, at + n)

Done == pc = "done"

\* the driver has returned (the process has not died)
Returned == Done /\ result # "Abort"

\* the offset of the first zero byte of the file from offset at on, or -1
RECURSIVE ZeroFrom(_)
ZeroFrom(at) ==
    IF at >= Len(File) THEN -1 ELSE IF File[at + 1] = 0 THEN at ELSE ZeroFrom(at + 1)

\* the offset just after the zero-terminated field at offset at (-1: none)
AfterZeroTerminated(at) ==
    IF at < 0 \/ ZeroFrom(at) < 0 THEN -1 ELSE ZeroFrom(at) + 1

\* the offset just after the header of the member at offset at, as RFC 1952
\* lays it out: 10 + (2 + XLEN) + (name + 1) + (comment + 1) + 2; -1 when the
\* file ends before it
HeaderEnd(at) ==
    LET flg == File[at + 4]
        has(bit) == ByteAnd(flg, bit) # 0
        fixed == IF at + 10 <= Len(File) THEN at + 10 ELSE -1
        extra == IF fixed < 0 \/ ~has(GZIP_FEXTRA) THEN fixed
                 ELSE IF fixed + 2 > Len(File) THEN -1
                 ELSE fixed + 2 + File[fixed + 1] + 256 * File[fixed + 2]
        name == IF has(GZIP_FNAME) THEN AfterZeroTerminated(extra) ELSE extra
        comment == IF has(GZIP_FCOMMENT) THEN AfterZeroTerminated(name) ELSE name
        hcrc == IF comment < 0 \/ ~has(GZIP_FHCRC) THEN comment ELSE comment + 2
    IN  IF fixed < 0 THEN -1 ELSE IF hcrc < 0 \/ hcrc > Len(File) THEN -1 ELSE hcrc

\* the member at offset at has one of the four defects of the fixed header
BadHeaderAt(at) ==
    /\ at + 4 <= Len(File)
    /\ \/ File[at + 1] # 31
       \/ File[at + 2] # 139
       \/ File[at + 3] # 8
       \/ ByteAnd(File[at + 4], 224) # 0

\* a member has been entered and its header has been dealt with
HeaderOver == obs.member >= 1 /\ pc # "gzip"

(***************************************************************************)
(* C1  libdeflate_gzip_decompress returns Ok for a member only if the      *)
(* CRC-32 of the bytes the sink accepted for that member is the CRC-32 of  *)
(* the member's trailer in the file and their number modulo 2^32 is the    *)
(* trailer's ISIZE; when the trailer check has run and either differs the  *)
(* member's result is BadData.                                             *)
(***************************************************************************)
\* the trailer check has run on a trailer that is whole in the file
TrailerRead == obs.trailer_at >= 0 /\ obs.trailer_at + GZIP_FOOTER_SIZE <= Len(File)

TrailerMatches ==
    /\ Crc32(MemberDelivered) = FileBytes(obs.trailer_at, 4)
    /\ Le4(Len(MemberDelivered)) = FileBytes(obs.trailer_at + 4, 4)

C2_Concatenation ==
    \A m1 \in ValidMembers, m2 \in ValidMembers :
        File = m1.bytes \o m2.bytes /\ Refused = 0 =>
            /\ obs.member = 2 => obs.member_start = Len(m1.bytes)
            /\ Returned => result = "Ok" /\ Delivered = m1.payload \o m2.payload

(***************************************************************************)
(* C3  When the file ends before the final block and the 8-byte trailer of *)
(* the member being read have been read, what the driver returns is        *)
(* BadData, also with a source that returns all that is asked for.         *)
(***************************************************************************)
C3_TruncatedIsBadData ==
    File \in TruncatedStreams /\ MaxRead = ReadFull /\ Returned => result = "BadData"

(***************************************************************************)
(* C4  Once the sink has returned Err it is not called again and the run   *)
(* ends with InsufficientSpace.                                            *)
(***************************************************************************)
C4_SinkErrorStops ==
    Refused > 0 =>
        /\ ~out_stream.func.again
        /\ Returned => result = "InsufficientSpace"

(***************************************************************************)
(* C5  Whatever the size of the source's returns, a valid member read with *)
(* a sink that accepts everything and a buffer larger than the file ends   *)
(* in Ok with the member's payload delivered - the outcome of the run      *)
(* whose source returns all that is asked for.                             *)
(***************************************************************************)
C5_SplitIndependent ==
    \A m \in ValidMembers :
        File = m.bytes /\ Refused = 0 /\ in_stream.buf_size = BufSizeLarge /\ Returned =>
            result = "Ok" /\ Delivered = m.payload

(***************************************************************************)
(* C6  A member whose ID1, ID2 or CM is wrong or whose FLG has a reserved  *)
(* bit set is refused with BadData, DEFLATE decoding never starts for it   *)
(* and no byte of it reaches the sink.                                     *)
(***************************************************************************)
C6_BadHeaderRejected ==
    obs.member >= 1 /\ BadHeaderAt(obs.member_start) =>
        /\ obs.deflate_start = -1
        /\ Len(Delivered) = obs.sink_base
        /\ HeaderOver => obs.member_result = "BadData"

(***************************************************************************)
(* C7  When the block decoder has read a block header with BTYPE = 3, a    *)
(* stored block header whose LEN is not the one's complement of its NLEN,  *)
(* or a dynamic block header whose first code length symbol is 16, the run *)
(* has ended with BadData: no further block is decoded.  Read from a source *)
(* that returns all that is asked for, a stream whose first block header   *)
(* has one of these defects ends so, at that header, with nothing          *)
(* delivered.                                                              *)
(***************************************************************************)
BadBlockRead ==
    /\ obs.blocks > 0
    /\ \/ tmp_data.block_type = 3
       \/ tmp_data.block_type = 0 /\ obs.len + obs.nlen # 65535
       \/ tmp_data.block_type = 2 /\ obs.first_presym = 16

\* the streams whose first block header has one of the three defects
DefectiveBlockStreams == {StreamBtype3, StreamBadNlen, StreamNegNlen, StreamFirstSym16}

C7_BadBlockIsBadData ==
    /\ BadBlockRead => Done /\ result = "BadData" /\ obs.member_result = "BadData"
    /\ File \in DefectiveBlockStreams /\ MaxRead = ReadFull /\ Done =>
           result = "BadData" /\ BadBlockRead /\ obs.blocks = 1 /\ Delivered = <<>>

\* a dynamic block header whose first code length symbol is 16 has been read
C7_Witness ==
    /\ Done /\ result = "BadData"
    /\ obs.blocks > 0 /\ tmp_data.block_type = 2 /\ obs.first_presym = 16

(***************************************************************************)
(* C10  With a source that returns all that is asked for, once the header  *)
(* of a member has been dealt with - a header that has none of the four    *)
(* defects and is followed in the file by the first byte of the DEFLATE    *)
(* stream - DEFLATE decoding has started at the offset just after the      *)
(* header, whatever the lengths of its fields and the buf_size.            *)
(***************************************************************************)
\* the header of the current member is whole and data follows it
HeaderInFile ==
    /\ ~BadHeaderAt(obs.member_start)
    /\ HeaderEnd(obs.member_start) >= 0
    /\ HeaderEnd(obs.member_start) < Len(File)

C10_DeflateStartsAfterHeader ==
    MaxRead = ReadFull /\ HeaderOver /\ HeaderInFile =>
        obs.deflate_start = HeaderEnd(obs.member_start)

InputBit(i) == BitOf(File[(i \div 8) + 1], i % 8)

\* the number made of bits k .. k + m - 1 of the input
InputBits(k, m) == BitsNum([j \in 1..m |-> InputBit(k + j - 1)] \o <<>>)

C12_BitsAreInputBits ==
    /\ pc = "bits" /\ build.last = "ensure" /\ in_stream.trap = "none"
    /\ build.n < 32
    /\ build.removed + build.n <= 8 * Len(File)
    => Bits(bs, build.n) = InputBits(build.removed, build.n)

CellAfter(i) == OutGet(out_stream, i, [g |-> build.g])

C15_ProcessEntryCopies ==
    /\ pc = "entry" /\ build.phase = "executed" /\ out_stream.trap = "none"
    /\ build.last_state.len_value = 0 \/ build.last_state.offset >= 1
    => /\ out_stream.current_ptr = build.before.current_ptr
                                   + build.last_state.literals_count
                                   + build.last_state.len_value
       /\ \A i \in DOMAIN build.before.buffer :
              i < build.before.current_ptr =>
                  /\ i \in DOMAIN out_stream.buffer
                  /\ out_stream.buffer[i] = build.before.buffer[i]
       /\ \A j \in 1..build.last_state.literals_count :
              CellAfter(build.before.current_ptr + j - 1) = build.last_state.literals[j]
       /\ \A i \in 1..build.last_state.len_value :
              CellAfter(build.before.current_ptr + build.last_state.literals_count + i - 1)
                  = CellAfter(build.before.current_ptr + build.last_state.literals_count
                              + i - 1 - build.last_state.offset)

C15_Witness ==
    /\ pc = "entry" /\ build.phase = "executed" /\ out_stream.trap = "none"
    /\ build.before.current_ptr > OUT_MAX_LOOK_BACK
    /\ build.last_state.literals_count = 1
    /\ build.last_state.offset = 2 /\ build.last_state.len_value = 9
    /\ out_stream.current_ptr = build.before.current_ptr + 10
    /\ CellAfter(out_stream.current_ptr - 2) = 100

(***************************************************************************)
(* C16: every byte stored while executing decoded entries lies below       *)
(* last_usable + OVERWRITE_MAX: from a cursor at which                     *)
(* has_writable_length(2 * DEFLATE_MAX_MATCH_LEN) holds, one decode step   *)
(* of up to two entries never stores past the end of the output buffer.    *)
(***************************************************************************)
C16_StoresInsideBuffer ==
    pc = "entry" /\ build.phase = "executed" => out_stream.trap # "process_entry:store"

(***************************************************************************)
(* C17: for every match the decoder can execute, the source range starting *)
(* at cursor - offset lies at or above the start of the output buffer.     *)
(***************************************************************************)
C17_SourceInsideBuffer ==
    pc = "entry" /\ build.phase = "executed" => out_stream.trap # "process_entry:load"

C19_PositionWithinWindow ==
    in_stream.trap = "none" =>
        /\ in_stream.position <= in_stream.end_position
        /\ in_stream.end_position <= in_stream.buf_size

(***************************************************************************)
(* C20: every bit the bit reader loads from beyond the last payload byte   *)
(* reads as zero: once the input has ended, the cells at or after          *)
(* end_position that the word load at position covers hold zero, in a      *)
(* fresh buffer and after refills that moved older data through them.      *)
(***************************************************************************)
C20_BeyondPayloadIsZero ==
    /\ pc = "bits" /\ build.phase = "open" /\ in_stream.trap = "none"
    /\ in_stream.func.offset = Len(in_stream.func.file)
    => \A i \in in_stream.end_position .. (in_stream.position + (WORDBITS \div 8) - 1) :
           BufSlice(in_stream.buffer, i, 1, [g |-> build.g])[1] = 0

(***************************************************************************)
(* C14: two successive independent streams decoded with the same table set *)
(* produce the same sink output and the same result as decoding each with  *)
(* freshly allocated tables, whatever block types the first stream         *)
(* contained and whether or not it ended in an error.  As stated, with     *)
(* static_codes_loaded reset at the start of each new stream:              *)
(***************************************************************************)
C14_SameAsFreshAndReset ==
    pc = "restart" /\ build.stream = 2 =>
        /\ build.shared_out = build.fresh_out
        /\ build.shared_result = build.fresh_result
        /\ build.blocks = 0 => ~tables.static_codes_loaded

(***************************************************************************)
(* C14, amended: the outputs and results are the same as with fresh        *)
(* tables; static_codes_loaded is carried from one stream to the next, and *)
(* whenever it is set the tables hold the static codes.                    *)
(***************************************************************************)
C14_SameAsFresh ==
    pc = "restart" =>
        /\ build.shared_out = build.fresh_out
        /\ build.shared_result = build.fresh_result
        /\ tables.static_codes_loaded => tables.codes = StaticCodes

C14_Witness ==
    /\ pc = "restart" /\ build.stream = 2 /\ build.carried
    /\ build.blocks = 1
    /\ build.shared_out[1] = StaticCodes
    /\ build.fresh_out[1] = StaticCodes
    /\ result = "Ok"

(***************************************************************************)
(* C28: refill_buffer does not change the logical stream:                  *)
(* tell_stream_pos() is the same before and after, the                     *)
(* min(position, MAX_LOOK_BACK) bytes before position and the unread bytes *)
(* keep their values and order, the bytes the source returns are appended  *)
(* directly after the old unread bytes, and the source is never asked for  *)
(* more than buf_size - end_position bytes.                                *)
(***************************************************************************)
WindowCell(I, i) == BufSlice(I.buffer, i, 1, [g |-> build.g])[1]

\* the number of bytes the call took from the source
WindowGain == in_stream.func.offset - build.before.func.offset

C28_RefillKeepsStream ==
    pc = "window" /\ build.refilled =>
        /\ in_stream.trap = "none"
        /\ TellStreamPos(in_stream) = TellStreamPos(build.before)
        /\ \A k \in 1..Min(build.before.position, IN_MAX_LOOK_BACK) :
               WindowCell(in_stream, in_stream.position - k)
                   = WindowCell(build.before, build.before.position - k)
        /\ \A i \in 0..(build.before.end_position - build.before.position - 1) :
               WindowCell(in_stream, in_stream.position + i)
                   = WindowCell(build.before, build.before.position + i)
        /\ in_stream.end_position - WindowGain
               = in_stream.position
                 + (build.before.end_position - build.before.position)
        /\ \A j \in 1..WindowGain :
               WindowCell(in_stream, in_stream.end_position - WindowGain + j - 1)
                   = WindowBytes[build.before.func.offset + j]
        /\ in_stream.end_position <= in_stream.buf_size

(***************************************************************************)
(* C27: in every state reached by any sequence of stored, static and       *)
(* dynamic blocks, a dynamic block whose table build fails part-way        *)
(* included, static_codes_loaded is true only if the tables hold the fixed *)
(* code: lengths 8, 9, 7, 8 for the litlen symbols 0..143, 144..255,       *)
(* 256..279, 280..287 and 5 for the 32 offset symbols.                     *)
(***************************************************************************)
C27_LoadedMeansFixedCode ==
    pc = "restart" /\ tables.static_codes_loaded =>
        /\ CodeLens(tables.codes) = StaticCodeLens
        /\ Len(CodeLens(tables.codes)) = 320
        /\ \A i \in 1..320 :
               CodeLens(tables.codes)[i]
                   = (IF i \in 1..144 \/ i \in 281..288 THEN 8
                      ELSE IF i \in 145..256 THEN 9
                      ELSE IF i \in 257..280 THEN 7 ELSE 5)

\* a static block loads the fixed code in a second stream whose tables the
\* first stream left with the flag cleared
C27_Witness ==
    /\ pc = "restart"
    /\ build.stream = 2 /\ ~build.carried
    /\ build.blocks = 2
    /\ build.shared_out[1].kind = "dynamic"
    /\ build.shared_out[2] = StaticCodes
    /\ tables.static_codes_loaded

(***************************************************************************)
(* C30: whenever flush_ensure_length(n) returns true,                      *)
(* has_writable_length(n) holds afterwards, for every n the decoder passes *)
(* (CHUNK_SIZE and 2 * DEFLATE_MAX_MATCH_LEN) and every buf_size, so that  *)
(* after each flush the main loop can execute at least one decode step.    *)
(***************************************************************************)
C30_FlushedHasWritableLength ==
    pc = "flush" /\ build.phase = "flushed" /\ build.ok =>
        HasWritableLength(out_stream, build.n)

(***************************************************************************)
(* C22: align_input leaves the input position at the first byte boundary   *)
(* at or after the last consumed bit, tell_stream_pos() = ceil(bits        *)
(* consumed / 8), for every bitsleft and inbits_offset; it never moves     *)
(* position below the start of the buffer, and it empties the bit buffer.  *)
(***************************************************************************)
C22_AlignInputAtByteBoundary ==
    pc = "bits" /\ build.phase = "aligned" =>
        /\ in_stream.trap = "none"
        /\ TellStreamPos(in_stream) = (build.removed + 7) \div 8
        /\ in_stream.position >= 0
        /\ bs.bitsleft = 0 /\ bs.inbits_offset = 0 /\ bs.bitbuf = NewBitStream.bitbuf

\* align_input has put back whole bytes of a bit buffer that began inside a
\* byte, after a refill that moved the window
C22_Witness ==
    /\ pc = "bits" /\ build.phase = "aligned"
    /\ build.n >= 8 /\ build.load > 0
    /\ build.removed % 8 # 0
    /\ in_stream.global_position_offset > 0
    /\ in_stream.trap = "none"

(***************************************************************************)
(* C21: a stored block with LEN = n delivers exactly the n input bytes     *)
(* that follow NLEN, in order, and advances the input by exactly n, so     *)
(* that the next block header is read at the byte after them; for n = 0,   *)
(* n not a multiple of 16, n larger than the bytes buffered and n larger   *)
(* than the free space of the output.                                      *)
(***************************************************************************)
\* the bytes written to the output: those the sink accepted and those not
\* yet flushed
StoredWritten ==
    Delivered \o OutSlice(out_stream, OUT_MAX_LOOK_BACK, out_stream.current_ptr,
                          [g |-> 0])

\* the LEN of the first block of the file
StoredLen == File[2] + 256 * File[3]

\* the file holds the whole of its first block and the block after it
StoredWhole == Len(File) = 5 + StoredLen + 5

C21_StoredBlockCopies ==
    /\ pc \in {"block", "read_exact_into", "done"} /\ StoredWhole /\ Refused = 0
       => /\ result = "None"
          /\ obs.blocks >= 1 => obs.len = (IF obs.blocks = 1 THEN StoredLen ELSE 0)
    /\ pc = "block" /\ StoredWhole /\ Refused = 0 /\ obs.blocks >= 1
       => /\ StoredWritten = StoredData(StoredLen)
          /\ TellStreamPos(in_stream) = 5 * obs.blocks + StoredLen
          /\ tmp_data.is_final_block = (obs.blocks = 2)
          /\ tmp_data.block_type = DEFLATE_BLOCKTYPE_UNCOMPRESSED

\* the header of the block after a stored block of 40 bytes has been read,
\* from a source that returns three bytes per call, with the small buffers
C21_Witness ==
    /\ pc = "block" /\ StoredWhole /\ Refused = 0
    /\ StoredLen = 40 /\ obs.blocks = 2
    /\ MaxRead = ReadFew /\ in_stream.buf_size = BufSizeSmall
    /\ Len(Delivered) > 0
    /\ tmp_data.is_final_block

(***************************************************************************)
(* C23: with a sink that always succeeds and a source that eventually      *)
(* returns 0, every run of the driver eventually returns, Ok or Err, for   *)
(* every input, also one that ends inside the gzip header, inside a stored *)
(* block before LEN bytes are available, or inside a Huffman block.        *)
(* The driver is sequential and deterministic, so a run returns only if    *)
(* it never comes to a state that its next step leaves as it is: from such *)
(* a state the same step is taken for ever.  Stated on the states of a     *)
(* run: wherever control is in the driver, the header reader, the block    *)
(* loop or the copy loop of read_exact_into, the next step changes the     *)
(* state.                                                                  *)
(***************************************************************************)
C23_EveryStepProgresses ==
    pc \in {"driver", "gzip", "block", "read_exact_into"} /\ result = "None" =>
        \E e \in SinkOkEnvs : Settle(Cur, DriverPass(Cur, e)) # Cur

(***************************************************************************)
(* The codes, as RFC 1951 defines them                                     *)
(***************************************************************************)
\* the symbols (from 0) that have a codeword
UsedSyms(lens) == {sym \in 0..(Len(lens) - 1) : lens[sym + 1] # 0}

RECURSIVE KraftSum(_, _)
\* the sum over the symbols below n of 2^(MaxCodewordLen - length)
KraftSum(lens, n) ==
    IF n = 0 THEN 0
    ELSE KraftSum(lens, n - 1)
         + (IF lens[n] = 0 THEN 0 ELSE 2^(MaxCodewordLen - lens[n]))

Complete(lens) == KraftSum(lens, Len(lens)) = 2^MaxCodewordLen

\* the two incomplete codes that are accepted
EmptyCode(lens) == UsedSyms(lens) = {}

SingleCode(lens) ==
    \E sym \in UsedSyms(lens) : UsedSyms(lens) = {sym} /\ lens[sym + 1] = 1

RECURSIVE FirstCode(_, _)
\* next_code[n] of RFC 1951, 3.2.2: the codeword of the first symbol of length n
FirstCode(lens, n) ==
    IF n <= 1 THEN 0
    ELSE 2 * (FirstCode(lens, n - 1)
              + Cardinality({s \in UsedSyms(lens) : lens[s + 1] = n - 1}))

\* the canonical codeword of a used symbol
Codeword(lens, sym) ==
    FirstCode(lens, lens[sym + 1])
    + Cardinality({s \in UsedSyms(lens) : lens[s + 1] = lens[sym + 1] /\ s < sym})

\* the codeword of sym, sent from its highest bit, is what the pattern starts with
Starts(lens, sym, pattern) ==
    \A k \in 0..(lens[sym + 1] - 1) :
        BitOf(pattern, k) = BitOf(Codeword(lens, sym), lens[sym + 1] - 1 - k)

(***************************************************************************)
(* C8  build_decode_table returns true exactly for a complete code, the    *)
(* empty code and the code of one symbol of length 1; in the two latter    *)
(* cases each of the 2^table_bits main entries holds the same entry.       *)
(***************************************************************************)
C8_AcceptedCodes ==
    build.phase \in {"built", "looked"} =>
        /\ build.ok = (Complete(build.lens) \/ EmptyCode(build.lens) \/ SingleCode(build.lens))
        /\ ~build.wild
        /\ build.ok /\ ~Complete(build.lens) =>
               \A i \in 0..(2^build.table_bits - 1) :
                   /\ i \in DOMAIN build.table
                   /\ build.table[i] = build.table[0]
                   /\ ~build.table[i].subtable_pointer
                   /\ build.table[i].length = 1

\* a code of one symbol of length 1 has been accepted and fills the main table
C8_Witness ==
    /\ build.phase = "built"
    /\ build.ok
    /\ SingleCode(build.lens)
    /\ build.table_bits > 1
    /\ build.table[0].result = 2

RECURSIVE KraftRange(_, _, _, _)
\* the sum over the symbols lo..hi of 2^(max_codeword_len - length)
KraftRange(lens, lo, hi, max_codeword_len) ==
    IF lo > hi THEN 0
    ELSE IF lo = hi
    THEN IF lens[lo] = 0 THEN 0 ELSE 2^(max_codeword_len - lens[lo])
    ELSE KraftRange(lens, lo, (lo + hi) \div 2, max_codeword_len)
         + KraftRange(lens, (lo + hi) \div 2 + 1, hi, max_codeword_len)

\* the sum over the symbols below n of 2^(max_codeword_len - length)
KraftSumOf(lens, n, max_codeword_len) == KraftRange(lens, 1, n, max_codeword_len)

\* max_codeword_len and the array size of the table that has been built
BuiltMaxCodewordLen ==
    IF build.phase # "sized" THEN MaxCodewordLen
    ELSE IF build.kind = "precode" THEN DEFLATE_MAX_PRE_CODEWORD_LEN
    ELSE IF build.kind = "litlen" THEN DEFLATE_MAX_LITLEN_CODEWORD_LEN
    ELSE DEFLATE_MAX_OFFSET_CODEWORD_LEN

BuiltEnough ==
    IF build.kind = "precode" THEN PRECODE_ENOUGH
    ELSE IF build.kind = "litlen" THEN LITLEN_ENOUGH
    ELSE OFFSET_ENOUGH

BuiltComplete ==
    KraftSumOf(build.lens, Len(build.lens), BuiltMaxCodewordLen) = 2^BuiltMaxCodewordLen

\* the main-table indices that hold a subtable pointer, and what one designates
SubtablePointers ==
    {i \in 0..(2^build.table_bits - 1) :
        i \in DOMAIN build.table /\ build.table[i].subtable_pointer}

SubtableRegion(i) ==
    build.table[i].result..(build.table[i].result + 2^build.table[i].extra - 1)

C26_ClassifiedByStateFlags ==
    pc = "decode" /\ build.path # "none" =>
        LET state_flags == build.flags % 16
        IN  /\ state_flags \in {EXC_LEN_FULLSIZE, EXC_LEN_EXTRABIT} => build.path = "length"
            /\ state_flags = EXC_END_OF_BLOCK => build.path = "end_of_block"
            /\ build.path = "subtable" => state_flags = EXC_LEN_SUBTABLE

(***************************************************************************)
(* C25  Every remove_bits(n) and pop_bits(n) of decode_block_instruction   *)
(* is called with n <= bitsleft.                                           *)
(***************************************************************************)
C25_RemovedBitsWereThere == pc = "decode" => ~build.over

(***************************************************************************)
(* C24  Within a Huffman block every entry stored in last_state is given   *)
(* to process_entry exactly once and in the order of decoding: the entries *)
(* executed are the entries decoded, but for the last one while it is      *)
(* pending; the output has advanced by the literals and match lengths of   *)
(* the entries executed; when the end of the block is reported no entry is *)
(* pending; and an entry that is pending after the output has been flushed *)
(* is executed by the next turn of the loop, whose guard then holds.       *)
(***************************************************************************)
RECURSIVE EntryBytes(_)
\* the bytes a sequence of entries puts out
EntryBytes(states) ==
    IF states = <<>> THEN 0
    ELSE Head(states).literals_count + Head(states).len_value + EntryBytes(Tail(states))

C24_EntriesExecutedOnceInOrder ==
    pc = "decode" /\ build.phase \in {"first", "main", "eob"} =>
        /\ Len(build.executed) <= Len(build.decoded)
        /\ build.executed = SubSeq(build.decoded, 1, Len(build.executed))
        /\ Len(build.decoded) - Len(build.executed) <= 1
        /\ Len(build.decoded) > Len(build.executed) =>
               build.last_state = build.decoded[Len(build.decoded)]
        /\ build.phase = "eob" => build.executed = build.decoded
        /\ out_stream.written + out_stream.current_ptr - OUT_MAX_LOOK_BACK
               = EntryBytes(build.executed)
        /\ (build.phase = "main" /\ build.flushed
                /\ Len(build.decoded) > Len(build.executed)) =>
               /\ HasReadableOverread(in_stream)
               /\ HasWritableLength(out_stream, 2 * DEFLATE_MAX_MATCH_LEN)

====
